---- MODULE Spec2Model ----
(***************************************************************************)
(* A model of deepcode's session manager (the agent loop of session.ts)    *)
(* and of its file tools (tools/state.ts, write-handler.ts,                *)
(* edit-handler.ts, read-handler.ts).                                      *)
(*                                                                         *)
(* Spec      the session manager: prompts, interrupts and the suspended    *)
(*           activateSession invocations, interleaved at their awaits.     *)
(* ToolSpec  the read / write / edit handlers over a small file system     *)
(*           and the read-tracking table.                                  *)
(* TurnSpec  the loop turn by turn, with every kind of model response.     *)
(* CodeSpec  getProjectCode over pairs of workspace paths.                 *)
(* PageSpec  readTextFile over small files, offsets and limits.            *)
(***************************************************************************)
EXTENDS Integers, Sequences, FiniteSets, TLC

(***************************************************************************)
(* Bounds of the model.                                                    *)
(***************************************************************************)
\* Session identifiers crypto.randomUUID() may hand out: 1 .. MaxSessions.
MaxSessions == 4
\* handleUserPrompt calls, each of which makes one activateSession invocation.
MaxRuns == 4
\* Spec, which follows the loop through its tool calls, creates at most
\* LoopSessions sessions and takes at most LoopRuns prompts.
LoopSessions == 2
LoopRuns == 2
\* The wall clock (new Date()) takes the values 0 .. MaxClock.
MaxClock == 1
\* interruptSession calls.
MaxInterrupts == 1
\* The cap on index entries (session.ts line 10, where it is 50) and the
\* iteration bound of activateSession (line 308, where it is 30), scaled down
\* so that the cap and the bound are reached.
MAX_SESSION_ENTRIES == 2
maxIterations == 2

SessionIds == 1 .. MaxSessions
RunIds == 1 .. MaxRuns
\* activeSessionId = null; sessionControllers.get(s) = undefined.
Null == 0

VARIABLES
    \* ---- session manager (session.ts) ----
    index,               \* sessions-index.json: the sequence of SessionEntry
    logs,                \* <sessionId>.jsonl: per session, whether the file exists and its lines
    activeSessionId,     \* SessionManager.activeSessionId
    sessionControllers,  \* SessionManager.sessionControllers: session -> the run whose AbortController is registered
    abortedControllers,  \* the AbortControllers (named by their run) on which abort() was called
    runs,                \* the activateSession invocations: where each is suspended, and its locals
    emitted,             \* per session, the calls of onAssistantMessage for its messages, in order
    clock,               \* the wall clock read by new Date()
    nextSession,         \* the next identifier crypto.randomUUID() yields for a session
    nextRun,             \* the next activateSession invocation (one per handleUserPrompt)
    \* ---- file tools (tools/*.ts) ----
    files,               \* the file system: path -> missing, a directory, or a file with its content
    readFilesBySession,  \* tools/state.ts: the set of <<sessionId, path>> marked as read
    successfulReads,     \* history: the <<sessionId, path>> of every read that returned ok
    createdFiles,        \* history: the <<sessionId, path>> of the files a write of the session created, no read of the path by the session having returned ok since
    lastCall,            \* the last tool call made: its arguments and its result
    toolCalls,           \* how many tool calls were made
    sessionWorkingDirs,  \* tools/bash-handler.ts: session -> the directory its next shell starts in
    bashRuns,            \* per session, the handleBashTool call in flight and how the last one ended
    formatRun,           \* a ToolExecutionResult and the string formatToolResult makes of it
    batchRun,            \* the executeToolCalls invocation: its calls and the executions so far
    codeRun,             \* two workspace paths and the project codes getProjectCode gives them
    pageRun,             \* a text file, the offset and limit of a read, and what readTextFile returns
    outputRun            \* what a shell process wrote, and the result buildToolCommandResult makes of it

smVars == <<index, logs, activeSessionId, sessionControllers, abortedControllers,
            runs, emitted, clock, nextSession, nextRun>>
pureVars == <<codeRun, pageRun, outputRun>>
execVars == <<sessionWorkingDirs, bashRuns, formatRun, batchRun, pureVars>>
toolVars == <<files, readFilesBySession, successfulReads, createdFiles, lastCall, toolCalls, execVars>>
vars == <<smVars, toolVars>>

(***************************************************************************)
(* Messages (SessionMessage).  `run` names the activateSession invocation  *)
(* that built the message (Null: built by createSession / replySession /   *)
(* interruptSession); `calls` is messageParams.tool_calls, `tcid` is       *)
(* messageParams.tool_call_id.                                             *)
(***************************************************************************)
Message(role, visible, kind, run, calls, tcid) ==
    [role |-> role, visible |-> visible, kind |-> kind, run |-> run,
     calls |-> calls, tcid |-> tcid]

buildSystemMessage(kind) == Message("system", FALSE, kind, Null, <<>>, Null)

buildUserMessage(kind) == Message("user", TRUE, kind, Null, <<>>, Null)

\* visible: (content || "").trim() || toolCalls; `hasContent` is the first disjunct.
buildAssistantMessage(run, kind, hasContent, calls) ==
    Message("assistant", hasContent \/ calls # <<>>, kind, run, calls, Null)

\* A test that hides the failed result of every tool.
isInvisibleExecution_AnyFailure(execution) == ~execution.ok

\* parsed.name === "bash" && parsed.ok !== true
isInvisibleExecution(execution) == execution.name = "bash" /\ ~execution.ok

buildToolMessage(run, execution) ==
    Message("tool", ~isInvisibleExecution(execution), "result", run, <<>>, execution.toolCallId)

(***************************************************************************)
(* Tool calls of a model response.  A call is well formed when             *)
(* parseToolCall accepts it (string id, function object, string name).     *)
(***************************************************************************)
ToolCallOf(id, name) == [id |-> id, name |-> name]

\* The raw tool_calls array: the i-th call has id i.
RawCalls(batch) == [i \in 1 .. Len(batch) |-> ToolCallOf(i, batch[i])]

parseToolCall(call) == call.name # "malformed"

\* executeToolCalls, lines 49-51: the calls parseToolCall keeps, in order.
ParsedCalls(calls) == SelectSeq(calls, parseToolCall)

\* What the model capability answers: (refusal?, content?, tool_calls).
Response(refusal, hasContent, calls) ==
    [refusal |-> refusal, hasContent |-> hasContent, calls |-> calls]

(***************************************************************************)
(* The persistence store.                                                  *)
(***************************************************************************)
NoLog == [exists |-> FALSE, lines |-> <<>>]

\* A store that writes the file anew instead of appending to it.
appendSessionMessage_Overwrite(lg, s, m) ==
    [lg EXCEPT ![s] = [exists |-> TRUE, lines |-> <<m>>]]

\* fs.appendFileSync: creates the file when it does not exist.
appendSessionMessage(lg, s, m) ==
    [lg EXCEPT ![s] = [exists |-> TRUE, lines |-> Append(@.lines, m)]]

\* fs.unlinkSync of each existing file.
removeSessionMessages(lg, ids) ==
    [s \in DOMAIN lg |-> IF s \in ids THEN NoLog ELSE lg[s]]

\* Every line the program writes is one JSON record; none is malformed.
listSessionMessages(lg, s) ==
    IF lg[s].exists THEN lg[s].lines ELSE <<>>

IndexIds(idx) == {idx[i].id : i \in 1 .. Len(idx)}

\* index.entries.find((entry) => entry.id === sessionId) ?? null
HasSession(idx, s) == s \in IndexIds(idx)

getSession(idx, s) == idx[CHOOSE i \in 1 .. Len(idx) : idx[i].id = s]

\* An update that rewrites every entry of the index.
updateSessionEntry_AllEntries(idx, s, status, reason, now) ==
    [i \in 1 .. Len(idx) |->
        [idx[i] EXCEPT !.status = status,
                       !.failReason = IF reason = "keep" THEN @ ELSE reason,
                       !.updateTime = now]]

\* updateSessionEntry with an updater that sets status, failReason and updateTime.
\* reason = "keep" leaves failReason as it is.  No entry: nothing is written.
updateSessionEntry(idx, s, status, reason, now) ==
    [i \in 1 .. Len(idx) |->
        IF idx[i].id = s
        THEN [idx[i] EXCEPT !.status = status,
                            !.failReason = IF reason = "keep" THEN @ ELSE reason,
                            !.updateTime = now]
        ELSE idx[i]]

(***************************************************************************)
(* Retention (createSession, lines 206-222).                               *)
(***************************************************************************)
\* The comparator: bTime - aTime < 0 puts a first; Array.prototype.sort is stable,
\* so an entry goes behind every entry that does not compare after it.
RECURSIVE InsertByUpdateTime(_, _)
InsertByUpdateTime(sorted, e) ==
    IF sorted = <<>> THEN <<e>>
    ELSE IF Head(sorted).updateTime >= e.updateTime
         THEN <<Head(sorted)>> \o InsertByUpdateTime(Tail(sorted), e)
         ELSE <<e>> \o sorted

RECURSIVE SortByUpdateTime(_)
SortByUpdateTime(entries) ==
    IF entries = <<>> THEN <<>>
    ELSE InsertByUpdateTime(SortByUpdateTime(SubSeq(entries, 1, Len(entries) - 1)),
                            entries[Len(entries)])

\* sortedEntries.slice(0, MAX_SESSION_ENTRIES)
KeptEntries(sorted) ==
    SubSeq(sorted, 1, IF Len(sorted) < MAX_SESSION_ENTRIES THEN Len(sorted) ELSE MAX_SESSION_ENTRIES)

NewEntry(s, now) ==
    [id |-> s, status |-> "pending", failReason |-> "none", updateTime |-> now]

(***************************************************************************)
(* The part of the manager's state that the loop code threads through.     *)
(***************************************************************************)
Cur ==
    [index |-> index, logs |-> logs, ctrl |-> sessionControllers,
     runs |-> runs, emitted |-> emitted]

Commit(st) ==
    /\ index' = st.index
    /\ logs' = st.logs
    /\ sessionControllers' = st.ctrl
    /\ runs' = st.runs
    /\ emitted' = st.emitted

\* onAssistantMessage(message, shouldConnect); `persisted` tells whether the
\* message was appended to the log before it was emitted.
Emit(st, s, m, persisted) ==
    [st EXCEPT !.emitted[s] = Append(@, [role |-> m.role, kind |-> m.kind,
                                          persisted |-> persisted])]

AppendAndEmit(st, s, m) ==
    Emit([st EXCEPT !.logs = appendSessionMessage(@, s, m)], s, m, TRUE)

UpdateEntry(st, s, status, reason, now) ==
    [st EXCEPT !.index = updateSessionEntry(@, s, status, reason, now)]

\* isInterrupted: !this.sessionControllers.has(sessionId)
isInterrupted(st, s) == st.ctrl[s] = Null

IdleRun == [session |-> Null, pc |-> "unused", iteration |-> 0, refusal |-> FALSE,
            calls |-> <<>>, parsed |-> <<>>, executions |-> <<>>]

\* An exit that leaves the handle in the table.
Finally_KeepsHandle(st, r) ==
    [st EXCEPT !.runs[r] = [IdleRun EXCEPT !.session = st.runs[r].session, !.pc = "done"]]

\* finally { this.sessionControllers.delete(sessionId) } and the invocation returns.
Finally(st, r) ==
    LET s == st.runs[r].session IN
    [st EXCEPT !.ctrl[s] = Null,
               !.runs[r] = [IdleRun EXCEPT !.session = s, !.pc = "done"]]

\* A loop test that lets one iteration too many through.
LoopContinues_OneMore(iteration) == iteration <= maxIterations

\* Line 311: iteration < maxIterations.
LoopContinues(iteration) == iteration < maxIterations

\* A loop that ends without a word when the bound is exhausted.
LoopHead_SilentStop(st, r, now) ==
    LET s == st.runs[r].session IN
    IF ~LoopContinues(st.runs[r].iteration)
    THEN Finally(UpdateEntry(st, s, "completed", "keep", now), r)
    ELSE IF isInterrupted(st, s) THEN Finally(st, r)
    ELSE IF HasSession(st.index, s)
            /\ getSession(st.index, s).status \in {"interrupted", "failed"}
         THEN Finally(st, r)
    ELSE [st EXCEPT !.runs[r].pc = "model", !.runs[r].refusal = FALSE,
                    !.runs[r].calls = <<>>, !.runs[r].parsed = <<>>,
                    !.runs[r].executions = <<>>]

\* Lines 311-329: the head of one loop iteration, up to the model call; lines
\* 376-384 when the bound is exhausted.
LoopHead(st, r, now) ==
    LET s == st.runs[r].session IN
    IF ~LoopContinues(st.runs[r].iteration)
    THEN Finally(Emit(UpdateEntry(st, s, "completed", "keep", now), s,
                      buildAssistantMessage(r, "continue?", TRUE, <<>>), FALSE), r)
    ELSE IF isInterrupted(st, s) THEN Finally(st, r)
    ELSE IF HasSession(st.index, s)
            /\ getSession(st.index, s).status \in {"interrupted", "failed"}
         THEN Finally(st, r)
    ELSE [st EXCEPT !.runs[r].pc = "model", !.runs[r].refusal = FALSE,
                    !.runs[r].calls = <<>>, !.runs[r].parsed = <<>>,
                    !.runs[r].executions = <<>>]

\* A loop that records a refusal as a completed turn.
LoopTail_RefusalCompletes(st, r, now) ==
    LET s == st.runs[r].session
        run == st.runs[r]
        status == IF run.calls # <<>> THEN "processing" ELSE "completed"
        st1 == UpdateEntry(st, s, status, "keep", now)
    IN  IF isInterrupted(st, s) THEN Finally(st, r)
        ELSE IF run.refusal \/ run.calls = <<>> THEN Finally(st1, r)
        ELSE LoopHead([st1 EXCEPT !.runs[r].iteration = @ + 1], r, now)

\* Lines 351-374: after the assistant message and its tool messages.
LoopTail(st, r, now) ==
    LET s == st.runs[r].session
        run == st.runs[r]
        status == IF run.refusal THEN "failed"
                  ELSE IF run.calls # <<>> THEN "processing" ELSE "completed"
        st1 == UpdateEntry(st, s, status, IF run.refusal THEN "refusal" ELSE "keep", now)
    IN  IF isInterrupted(st, s) THEN Finally(st, r)
        ELSE IF run.refusal \/ run.calls = <<>> THEN Finally(st1, r)
        ELSE LoopHead([st1 EXCEPT !.runs[r].iteration = @ + 1], r, now)

RECURSIVE AppendToolMessagesFrom(_, _, _, _)
AppendToolMessagesFrom(st, r, executions, i) ==
    IF i > Len(executions) THEN st
    ELSE AppendToolMessagesFrom(
            AppendAndEmit(st, st.runs[r].session, buildToolMessage(r, executions[i])),
            r, executions, i + 1)

\* appendToolMessages, lines 648-662, once executeToolCalls has returned.
AppendToolMessages(st, r) ==
    IF isInterrupted(st, st.runs[r].session) THEN st
    ELSE AppendToolMessagesFrom(st, r, st.runs[r].executions, 1)

\* Lines 331-349: the model call returned `resp`.
AfterModel(st, r, resp, now) ==
    LET s == st.runs[r].session
        parsed == ParsedCalls(resp.calls)
        st1 == AppendAndEmit(st, s, buildAssistantMessage(r, "reply", resp.hasContent, resp.calls))
        st2 == [st1 EXCEPT !.runs[r].refusal = resp.refusal, !.runs[r].calls = resp.calls,
                           !.runs[r].parsed = parsed, !.runs[r].executions = <<>>]
    IN  IF isInterrupted(st, s) THEN Finally(st, r)
        ELSE IF parsed = <<>>
             \* no handler runs: executeToolCalls returns at once
             THEN LoopTail(AppendToolMessages(st2, r), r, now)
             ELSE [st2 EXCEPT !.runs[r].pc = "tools"]

\* A catch block that calls the model again after an error that is no abort.
Catch_Retry(st, r, isAbortError, now) ==
    IF isAbortError
    THEN Finally(UpdateEntry(st, st.runs[r].session, "interrupted", "aborted", now), r)
    ELSE [UpdateEntry(st, st.runs[r].session, "failed", "error", now)
            EXCEPT !.runs[r].pc = "model"]

\* A catch block that reports an error that is no abort, and records nothing.
Catch_OnlyNotice(st, r, isAbortError, now) ==
    LET s == st.runs[r].session IN
    Finally(IF isAbortError THEN UpdateEntry(st, s, "interrupted", "aborted", now)
            ELSE Emit(st, s, buildAssistantMessage(r, "failed", TRUE, <<>>), FALSE), r)

\* Lines 385-400: the catch block.
Catch(st, r, isAbortError, now) ==
    LET s == st.runs[r].session
        st1 == UpdateEntry(st, s, IF isAbortError THEN "interrupted" ELSE "failed",
                           IF isAbortError THEN "aborted" ELSE "error", now)
    IN  Finally(IF isAbortError THEN st1
                ELSE Emit(st1, s, buildAssistantMessage(r, "failed", TRUE, <<>>), FALSE), r)

\* An activation that registers the handle before it looks for the client.
Activate_RegistersFirst(st, s, r, hasClient, now) ==
    IF ~hasClient
    THEN [Emit(UpdateEntry(st, s, "failed", "nokey", now), s,
               buildAssistantMessage(r, "nokey", TRUE, <<>>), FALSE)
            EXCEPT !.ctrl[s] = r,
                   !.runs[r] = [IdleRun EXCEPT !.session = s, !.pc = "done"]]
    ELSE LoopHead([UpdateEntry(st, s, "processing", "keep", now)
                     EXCEPT !.ctrl[s] = r,
                            !.runs[r] = [IdleRun EXCEPT !.session = s]], r, now)

\* activateSession, lines 280-329: up to the first model call.
Activate(st, s, r, hasClient, now) ==
    IF ~hasClient
    THEN [Emit(UpdateEntry(st, s, "failed", "nokey", now), s,
               buildAssistantMessage(r, "nokey", TRUE, <<>>), FALSE)
            EXCEPT !.runs[r] = [IdleRun EXCEPT !.session = s, !.pc = "done"]]
    ELSE LoopHead([UpdateEntry(st, s, "processing", "keep", now)
                     EXCEPT !.ctrl[s] = r,
                            !.runs[r] = [IdleRun EXCEPT !.session = s]], r, now)

RECURSIVE AppendSkillMessages(_, _, _)
AppendSkillMessages(lg, s, n) ==
    IF n = 0 THEN lg
    ELSE appendSessionMessage(AppendSkillMessages(lg, s, n - 1), s, buildSystemMessage("skill"))

(***************************************************************************)
(* Operations of the session manager.                                      *)
(***************************************************************************)
\* createSession, lines 190-243 (the slash line is resolved into nSkills).
CreateSessionState(st, s, nSkills, now) ==
    LET sorted == SortByUpdateTime(Append(st.index, NewEntry(s, now)))
        kept == KeptEntries(sorted)
        dropped == IndexIds(sorted) \ IndexIds(kept)
        lg1 == removeSessionMessages(st.logs, dropped)
        lg2 == appendSessionMessage(lg1, s, buildSystemMessage("instructions"))
        lg3 == AppendSkillMessages(lg2, s, nSkills)
        lg4 == appendSessionMessage(lg3, s, buildUserMessage("prompt"))
    IN  [st EXCEPT !.index = kept, !.logs = lg4]

\* replySession, lines 248-276, when the entry exists.
ReplySessionState(st, s, nSkills, now) ==
    LET st1 == [st EXCEPT !.index = updateSessionEntry(@, s, "pending", "none", now)]
        lg1 == AppendSkillMessages(st1.logs, s, nSkills)
    IN  [st1 EXCEPT !.logs = appendSessionMessage(lg1, s, buildUserMessage("prompt"))]

\* A prompt that starts a new session whatever the active one is.
CreatesSession_Always == TRUE

\* handleUserPrompt, line 168: no active session, or one that is not in the index.
CreatesSession == activeSessionId = Null \/ ~HasSession(index, activeSessionId)

\* handleUserPrompt, lines 167-173, run to its first suspension.
handleUserPrompt(nSkills, hasClient) ==
    LET create == CreatesSession
        s == IF create THEN nextSession ELSE activeSessionId
        r == nextRun
    IN  /\ create => nextSession <= MaxSessions
        /\ nextRun <= MaxRuns
        \* the view sends the prompt's text only: skills come from a slash line,
        \* which createSession alone resolves
        /\ ~create => nSkills = 0
        /\ Commit(Activate(IF create THEN CreateSessionState(Cur, s, nSkills, clock)
                                     ELSE ReplySessionState(Cur, s, nSkills, clock),
                           s, r, hasClient, clock))
        /\ activeSessionId' = s
        /\ nextSession' = IF create THEN nextSession + 1 ELSE nextSession
        /\ nextRun' = nextRun + 1
        /\ UNCHANGED <<abortedControllers, clock, toolVars>>

\* The model call of run r resolves (line 322).
ModelReturns(r, resp) ==
    /\ runs[r].pc = "model"
    /\ r \notin abortedControllers
    /\ Commit(AfterModel(Cur, r, resp, clock))
    /\ UNCHANGED <<activeSessionId, abortedControllers, clock, nextSession, nextRun, toolVars>>

\* The model call of run r rejects: with an AbortError when the run's signal was
\* aborted, with another error otherwise.
ModelFails(r) ==
    /\ runs[r].pc = "model"
    /\ Commit(Catch(Cur, r, r \in abortedControllers, clock))
    /\ UNCHANGED <<activeSessionId, abortedControllers, clock, nextSession, nextRun, toolVars>>

\* The handler of the next parsed call of run r's batch returns `ok`
\* (executor.ts, lines 54-60); after the last one appendToolMessages goes on.
ToolReturns(r, ok) ==
    /\ runs[r].pc = "tools"
    /\ LET call == runs[r].parsed[Len(runs[r].executions) + 1]
           execution == [toolCallId |-> call.id, name |-> call.name, ok |-> ok]
           st1 == [Cur EXCEPT !.runs[r].executions = Append(@, execution)]
       IN  Commit(IF Len(st1.runs[r].executions) < Len(runs[r].parsed)
                  THEN st1
                  ELSE LoopTail(AppendToolMessages(st1, r), r, clock))
    /\ UNCHANGED <<activeSessionId, abortedControllers, clock, nextSession, nextRun, toolVars>>

RECURSIVE SumOver(_, _)
SumOver(f, S) ==
    IF S = {} THEN 0
    ELSE LET x == CHOOSE y \in S : TRUE IN f[x] + SumOver(f, S \ {x})

\* The interruptSession calls made so far (each emits one "Interrupted." notice).
InterruptCount ==
    SumOver([s \in SessionIds |->
                Cardinality({i \in 1 .. Len(emitted[s]) : emitted[s][i].kind = "Interrupted."})],
            SessionIds)

\* interruptSession, lines 406-425, called by the view for the active session
\* (extension.ts, lines 72-77).
interruptSession ==
    /\ activeSessionId # Null
    /\ InterruptCount < MaxInterrupts
    /\ LET s == activeSessionId
           st1 == [Cur EXCEPT !.ctrl[s] = Null]
           st2 == UpdateEntry(st1, s, "interrupted", "interrupted", clock)
       IN  Commit(Emit(st2, s, buildUserMessage("Interrupted."), FALSE))
    /\ abortedControllers' =
          IF sessionControllers[activeSessionId] # Null
          THEN abortedControllers \cup {sessionControllers[activeSessionId]}
          ELSE abortedControllers
    /\ UNCHANGED <<activeSessionId, clock, nextSession, nextRun, toolVars>>

\* loadSession (extension.ts, lines 116-123): the user selects a listed session.
loadSession(s) ==
    /\ HasSession(index, s)
    /\ activeSessionId # s
    /\ activeSessionId' = s
    /\ UNCHANGED <<index, logs, sessionControllers, abortedControllers, runs, emitted,
                   clock, nextSession, nextRun, toolVars>>

\* createNewSession (extension.ts, lines 169-171).
createNewSession ==
    /\ activeSessionId # Null
    /\ activeSessionId' = Null
    /\ UNCHANGED <<index, logs, sessionControllers, abortedControllers, runs, emitted,
                   clock, nextSession, nextRun, toolVars>>

\* Time passes: a later new Date() reads a later time.
Tick ==
    /\ clock < MaxClock
    /\ clock' = clock + 1
    /\ UNCHANGED <<index, logs, activeSessionId, sessionControllers, abortedControllers,
                   runs, emitted, nextSession, nextRun, toolVars>>

(***************************************************************************)
(* The file tools.  A text is a sequence of characters; a path is one of a *)
(* few strings, told apart by what path.isAbsolute, String.trim and the    *)
(* file system make of them.                                               *)
(***************************************************************************)
\* Tool calls made in one behaviour of ToolSpec and of EditSpec.
MaxToolCalls == 3
\* Length of the file contents EditSpec starts from.
MaxText == 3
\* Length of old_string and new_string in EditSpec.
MaxArg == 2

\* The sessions that call tools.
ToolSessions == 1 .. 2

\* The project root is /w.  "/w/./f" names the file /w/f by another string,
\* "f" is relative, " " is blank.
PathStrings == {"", " ", "f", "/w/f", "/w/./f"}

CanonicalFiles == {"/w/f"}

\* !filePath.trim()
IsBlank(path) == path \in {"", " "}

\* The files of a project tree with subdirectories d, e, e/d and g, every
\* file named f, in the order findSuffixMatches meets them: the entries of a
\* directory in name order, the directory pushed last popped first.
TraversalOrder == <<"/w/f", "/w/g/f", "/w/e/f", "/w/e/d/f", "/w/d/f">>

TreeFiles == {TraversalOrder[i] : i \in 1 .. Len(TraversalOrder)}

\* Relative paths into that tree; "../f" is a parent traversal.
RelativePaths == {"f", "./f", "d/f", "../f"}

\* path.isAbsolute(filePath)
isAbsolute(path) == path \in TreeFiles \cup {"/w/./f"}

\* The file an absolute path names.
FileAt(path) == IF path \in TreeFiles THEN path ELSE "/w/f"

\* path.resolve(context.projectRoot, filePath) of a relative path.
ResolvePath(path) == IF path = "d/f" THEN "/w/d/f" ELSE "/w/f"

\* filePath.startsWith("../") || filePath.startsWith("..\\")
IsParentTraversal(path) == path = "../f"

Missing == [kind |-> "missing", content |-> <<>>]
Directory == [kind |-> "dir", content |-> <<>>]
FileWith(text) == [kind |-> "file", content |-> text]

\* The characters of texts: a letter, and the two characters that
\* String.prototype.replace reads as a pattern in its replacement.
Chars == {"a", "$", "&"}

RECURSIVE TextsOfLength(_)
TextsOfLength(n) ==
    IF n = 0 THEN {<<>>}
    ELSE {Append(x, c) : x \in TextsOfLength(n - 1), c \in Chars}

TextsUpTo(n) == UNION {TextsOfLength(k) : k \in 0 .. n}

\* ---- tools/state.ts ----
\* A table that forgets which session read the path.
wasFileRead_AnySession(table, s, path) == \E other \in ToolSessions : <<other, path>> \in table

wasFileRead(table, s, path) == <<s, path>> \in table

\* A mark that replaces the table's entries instead of adding to them.
markFileRead_Forgetting(table, s, path) ==
    IF s = Null \/ path = "" THEN table ELSE {<<s, path>>}

markFileRead(table, s, path) == table \cup {<<s, path>>}

\* ---- results (ToolExecutionResult) ----
\* `count`: bytes written, or occurrences replaced.
Failure(name, error) == [ok |-> FALSE, name |-> name, error |-> error, count |-> 0]

Success(name, count) == [ok |-> TRUE, name |-> name, error |-> "none", count |-> count]

Outcome(result, fsys, table) == [result |-> result, files |-> fsys, table |-> table]

\* A write handler that marks the file it creates as read.
handleWriteTool_MarksCreated(args, s, fsys, table) ==
    LET path == args.file_path IN
    IF IsBlank(path)
    THEN Outcome(Failure("write", "Missing required file_path string."), fsys, table)
    ELSE IF ~isAbsolute(path)
    THEN Outcome(Failure("write", "file_path must be an absolute path."), fsys, table)
    ELSE IF ~args.hasContent
    THEN Outcome(Failure("write", "Missing required content string."), fsys, table)
    ELSE IF fsys[FileAt(path)].kind = "dir"
    THEN Outcome(Failure("write", "file_path points to a directory."), fsys, table)
    ELSE IF fsys[FileAt(path)].kind = "file" /\ ~wasFileRead(table, s, path)
    THEN Outcome(Failure("write", "Must read existing file before writing."), fsys, table)
    ELSE Outcome(Success("write", Len(args.content)),
                 [fsys EXCEPT ![FileAt(path)] = FileWith(args.content)],
                 IF fsys[FileAt(path)].kind = "missing" THEN markFileRead(table, s, path)
                 ELSE table)

\* A write handler that writes the file before it looks at the read mark.
handleWriteTool_WritesBeforeCheck(args, s, fsys, table) ==
    LET path == args.file_path IN
    IF IsBlank(path)
    THEN Outcome(Failure("write", "Missing required file_path string."), fsys, table)
    ELSE IF ~isAbsolute(path)
    THEN Outcome(Failure("write", "file_path must be an absolute path."), fsys, table)
    ELSE IF ~args.hasContent
    THEN Outcome(Failure("write", "Missing required content string."), fsys, table)
    ELSE IF fsys[FileAt(path)].kind = "dir"
    THEN Outcome(Failure("write", "file_path points to a directory."), fsys, table)
    ELSE IF fsys[FileAt(path)].kind = "file" /\ ~wasFileRead(table, s, path)
    THEN Outcome(Failure("write", "Must read existing file before writing."),
                 [fsys EXCEPT ![FileAt(path)] = FileWith(args.content)], table)
    ELSE Outcome(Success("write", Len(args.content)),
                 [fsys EXCEPT ![FileAt(path)] = FileWith(args.content)], table)

\* ---- write-handler.ts ----
\* args: file_path ("" when it is no string), hasContent (content is a string), content.
handleWriteTool(args, s, fsys, table) ==
    LET path == args.file_path IN
    IF IsBlank(path)
    THEN Outcome(Failure("write", "Missing required file_path string."), fsys, table)
    ELSE IF ~isAbsolute(path)
    THEN Outcome(Failure("write", "file_path must be an absolute path."), fsys, table)
    ELSE IF ~args.hasContent
    THEN Outcome(Failure("write", "Missing required content string."), fsys, table)
    ELSE IF fsys[FileAt(path)].kind = "dir"
    THEN Outcome(Failure("write", "file_path points to a directory."), fsys, table)
    ELSE IF fsys[FileAt(path)].kind = "file" /\ ~wasFileRead(table, s, path)
    THEN Outcome(Failure("write", "Must read existing file before writing."), fsys, table)
    ELSE Outcome(Success("write", Len(args.content)),
                 [fsys EXCEPT ![FileAt(path)] = FileWith(args.content)], table)

\* ---- edit-handler.ts ----
\* source.indexOf(needle, index), positions counted from 1; 0 when there is none.
RECURSIVE IndexOf(_, _, _)
IndexOf(source, needle, from) ==
    IF from + Len(needle) - 1 > Len(source) THEN 0
    ELSE IF SubSeq(source, from, from + Len(needle) - 1) = needle THEN from
    ELSE IndexOf(source, needle, from + 1)

RECURSIVE CountFrom(_, _, _)
CountFrom(source, needle, start) ==
    LET found == IndexOf(source, needle, start) IN
    IF found = 0 THEN 0 ELSE 1 + CountFrom(source, needle, found + Len(needle))

countOccurrences(source, needle) ==
    IF source = <<>> \/ needle = <<>> THEN 0 ELSE CountFrom(source, needle, 1)

\* raw.split(oldString).join(newString)
RECURSIVE SplitJoin(_, _, _)
SplitJoin(raw, oldString, newString) ==
    LET found == IndexOf(raw, oldString, 1) IN
    IF found = 0 THEN raw
    ELSE SubSeq(raw, 1, found - 1) \o newString
            \o SplitJoin(SubSeq(raw, found + Len(oldString), Len(raw)), oldString, newString)

\* What String.prototype.replace puts in place of the match for a string
\* pattern: in the replacement, "$$" stands for "$" and "$&" for the match.
RECURSIVE Substitution(_, _)
Substitution(replacement, matched) ==
    IF replacement = <<>> THEN <<>>
    ELSE IF Len(replacement) >= 2 /\ replacement[1] = "$" /\ replacement[2] = "$"
    THEN <<"$">> \o Substitution(SubSeq(replacement, 3, Len(replacement)), matched)
    ELSE IF Len(replacement) >= 2 /\ replacement[1] = "$" /\ replacement[2] = "&"
    THEN matched \o Substitution(SubSeq(replacement, 3, Len(replacement)), matched)
    ELSE <<Head(replacement)>> \o Substitution(Tail(replacement), matched)

\* raw.replace(oldString, newString): the first occurrence only.
ReplaceFirst(raw, oldString, newString) ==
    LET found == IndexOf(raw, oldString, 1) IN
    IF found = 0 THEN raw
    ELSE SubSeq(raw, 1, found - 1) \o Substitution(newString, oldString)
            \o SubSeq(raw, found + Len(oldString), Len(raw))

\* Checks that look for the file before they ask whether it was read.
EditTargetError_ExistenceFirst(path, s, fsys, table) ==
    IF fsys[FileAt(path)].kind = "missing" THEN "File not found"
    ELSE IF ~wasFileRead(table, s, path) THEN "Must read file before editing."
    ELSE IF fsys[FileAt(path)].kind = "dir" THEN "file_path points to a directory."
    ELSE "none"

\* handleEditTool, lines 58-92: the checks on the target, in the code's order.
EditTargetError(path, s, fsys, table) ==
    IF ~wasFileRead(table, s, path) THEN "Must read file before editing."
    ELSE IF fsys[FileAt(path)].kind = "missing" THEN "File not found"
    ELSE IF fsys[FileAt(path)].kind = "dir" THEN "file_path points to a directory."
    ELSE "none"

\* args: file_path, hasOld / old_string, hasNew / new_string, replace_all
\* (false when it is no boolean).
handleEditTool(args, s, fsys, table) ==
    LET path == args.file_path
        raw == fsys[FileAt(path)].content
        matches == countOccurrences(raw, args.old_string)
        updated == IF args.replace_all
                   THEN SplitJoin(raw, args.old_string, args.new_string)
                   ELSE ReplaceFirst(raw, args.old_string, args.new_string)
    IN
    IF IsBlank(path)
    THEN Outcome(Failure("edit", "Missing required file_path string."), fsys, table)
    ELSE IF ~isAbsolute(path)
    THEN Outcome(Failure("edit", "file_path must be an absolute path."), fsys, table)
    ELSE IF ~args.hasOld
    THEN Outcome(Failure("edit", "Missing required old_string string."), fsys, table)
    ELSE IF ~args.hasNew
    THEN Outcome(Failure("edit", "Missing required new_string string."), fsys, table)
    ELSE IF args.old_string = <<>>
    THEN Outcome(Failure("edit", "old_string must not be empty."), fsys, table)
    ELSE IF args.old_string = args.new_string
    THEN Outcome(Failure("edit", "new_string must differ from old_string."), fsys, table)
    ELSE IF EditTargetError(path, s, fsys, table) # "none"
    THEN Outcome(Failure("edit", EditTargetError(path, s, fsys, table)), fsys, table)
    ELSE IF matches = 0
    THEN Outcome(Failure("edit", "old_string not found in file."), fsys, table)
    ELSE IF ~args.replace_all /\ matches > 1
    THEN Outcome(Failure("edit", "old_string is not unique; use replace_all or provide more context."),
                 fsys, table)
    ELSE Outcome(Success("edit", IF args.replace_all THEN matches ELSE 1),
                 [fsys EXCEPT ![FileAt(path)] = FileWith(updated)], table)

\* ---- read-handler.ts ----
\* findSuffixMatches: the files of the project tree whose path ends with the
\* relative path.
\* normalizeRelativeSuffix: path.normalize drops a leading "./", and the
\* separator goes in front.
normalizeRelativeSuffix(path) == IF path = "d/f" THEN "/d/f" ELSE "/f"

\* fullPath.endsWith(suffix)
endsWith(fullPath, suffix) ==
    IF suffix = "/d/f" THEN fullPath \in {"/w/d/f", "/w/e/d/f"} ELSE TRUE

\* A regular file that the .gitignore rules cover: fs.existsSync and
\* fs.statSync see it, findSuffixMatches skips it.
IgnoredFile(text) == [kind |-> "ignored", content |-> text]

\* findSuffixMatches: the regular, non-ignored files of the project tree whose
\* path ends with the suffix, in traversal order.
findSuffixMatches(fsys, suffix) ==
    LET IsMatch(f) == f \in DOMAIN fsys /\ fsys[f].kind = "file" /\ endsWith(f, suffix)
    IN  SelectSeq(TraversalOrder, IsMatch)

\* matches.slice(0, 3)
Slice3(matches) == SubSeq(matches, 1, IF Len(matches) > 3 THEN 3 ELSE Len(matches))

\* handleReadTool, lines 47-100: the path the read goes to, or the error
\* with the candidates it lists.
ReadTarget(args, fsys) ==
    LET path == args.file_path
        matches == findSuffixMatches(fsys, normalizeRelativeSuffix(path))
    IN
    IF IsBlank(path)
    THEN [error |-> "Missing required file_path string.", path |-> path, listed |-> <<>>]
    ELSE IF isAbsolute(path) THEN [error |-> "none", path |-> path, listed |-> <<>>]
    ELSE IF IsParentTraversal(path)
    THEN [error |-> "file_path must be an absolute path.", path |-> path, listed |-> <<>>]
    ELSE IF Len(matches) > 1
    THEN [error |-> "file_path is ambiguous", path |-> path, listed |-> Slice3(matches)]
    ELSE IF fsys[FileAt(ResolvePath(path))].kind = "missing"
    THEN [error |-> IF Len(matches) > 0 THEN "file_path is ambiguous" ELSE "File not found",
          path |-> path, listed |-> <<>>]
    ELSE [error |-> "none", path |-> ResolvePath(path), listed |-> <<>>]

\* args: file_path, rangeOk (offset, limit and pages are acceptable for the file).
handleReadTool(args, s, fsys, table) ==
    LET target == ReadTarget(args, fsys) IN
    IF target.error # "none" THEN Outcome(Failure("read", target.error), fsys, table)
    ELSE IF fsys[FileAt(target.path)].kind = "missing"
    THEN Outcome(Failure("read", "File not found"), fsys, table)
    ELSE IF fsys[FileAt(target.path)].kind = "dir"
    THEN Outcome(Failure("read", "file_path points to a directory."), fsys, table)
    ELSE IF ~args.rangeOk
    THEN Outcome(Failure("read", "invalid offset, limit or pages"), fsys, table)
    ELSE Outcome(Success("read", 0), fsys, markFileRead(table, s, target.path))

(***************************************************************************)
(* Tool calls as steps.                                                    *)
(***************************************************************************)
NoText == <<>>

CallOf(tool, s, path, hasOld, old, hasNew, new, replaceAll, result) ==
    [tool |-> tool, session |-> s, file_path |-> path, hasOld |-> hasOld,
     old_string |-> old, hasNew |-> hasNew, new_string |-> new,
     replace_all |-> replaceAll, result |-> result]

NoCall == CallOf("none", Null, "", FALSE, NoText, FALSE, NoText, FALSE, Failure("none", "none"))

ReadCall(s, path, rangeOk) ==
    /\ toolCalls < MaxToolCalls
    /\ LET args == [file_path |-> path, rangeOk |-> rangeOk]
           out == handleReadTool(args, s, files, readFilesBySession)
       IN  /\ files' = out.files
           /\ readFilesBySession' = out.table
           /\ successfulReads' =
                 IF out.result.ok
                 THEN successfulReads \cup {<<s, ReadTarget(args, files).path>>}
                 ELSE successfulReads
           /\ createdFiles' =
                 IF out.result.ok
                 THEN createdFiles \ {<<s, ReadTarget(args, files).path>>}
                 ELSE createdFiles
           /\ lastCall' = CallOf("read", s, path, FALSE, NoText, FALSE, NoText, rangeOk, out.result)
    /\ toolCalls' = toolCalls + 1
    /\ UNCHANGED <<smVars, execVars>>

\* The content of a write travels in the call's new_string fields.
WriteCall(s, path, hasContent, content) ==
    /\ toolCalls < MaxToolCalls
    /\ LET args == [file_path |-> path, hasContent |-> hasContent, content |-> content]
           out == handleWriteTool(args, s, files, readFilesBySession)
       IN  /\ files' = out.files
           /\ readFilesBySession' = out.table
           /\ createdFiles' =
                 IF out.result.ok /\ files[FileAt(path)].kind = "missing"
                 THEN createdFiles \cup {<<s, path>>}
                 ELSE createdFiles
           /\ lastCall' = CallOf("write", s, path, FALSE, NoText, hasContent, content, FALSE, out.result)
    /\ toolCalls' = toolCalls + 1
    /\ UNCHANGED <<successfulReads, smVars, execVars>>

EditCall(s, path, hasOld, old, hasNew, new, replaceAll) ==
    /\ toolCalls < MaxToolCalls
    /\ LET args == [file_path |-> path, hasOld |-> hasOld, old_string |-> old,
                    hasNew |-> hasNew, new_string |-> new, replace_all |-> replaceAll]
           out == handleEditTool(args, s, files, readFilesBySession)
       IN  /\ files' = out.files
           /\ readFilesBySession' = out.table
           /\ lastCall' = CallOf("edit", s, path, hasOld, old, hasNew, new, replaceAll, out.result)
    /\ toolCalls' = toolCalls + 1
    /\ UNCHANGED <<successfulReads, createdFiles, smVars, execVars>>


\* ---- bash-handler.ts ----
\* The directories a shell can be in; the project root is /w.
Dirs == {"/w", "/tmp"}
projectRoot == "/w"

\* sessionWorkingDirs.get(sessionId) ?? fallback
getSessionCwd(dirs, s, fallback) == IF dirs[s] = "none" THEN fallback ELSE dirs[s]

\* updateSessionCwd: sessionWorkingDirs.set(sessionId, cwd ?? fallback)
updateSessionCwd(dirs, s, fallback, cwd) ==
    [dirs EXCEPT ![s] = IF cwd = "none" THEN fallback ELSE cwd]

\* A command, by what matters to the handler: whether it is blank, the
\* directory it changes to ("none": it stays), whether it leaves the shell
\* itself (exit, exec, set -e, a signal) before the wrapper's printf of the
\* marker line runs, and the status the shell exits with.
Command(blank, cd, early, status) ==
    [blank |-> blank, cd |-> cd, early |-> early, status |-> status]

BashCommands ==
    {Command(TRUE, "none", FALSE, 0)}
    \cup {Command(FALSE, cd, early, status) :
            cd \in Dirs \cup {"none"}, early \in BOOLEAN, status \in {0, 1}}

\* buildShellCommand and execFile: the shell runs `command`, then prints the
\* marker followed by $PWD, then exits with the command's status.  `endedIn`
\* is the directory the shell process was in when it ended; `marker` is the
\* text behind the marker in stdout ("none": no marker line).
RunShell(command, startCwd) ==
    LET endedIn == IF command.cd = "none" THEN startCwd ELSE command.cd IN
    [endedIn |-> endedIn,
     marker |-> IF command.early THEN "none" ELSE endedIn,
     exitCode |-> command.status]

\* stripMarker: the directory read off the marker line, or null.
stripMarker(process) == process.marker

\* handleBashTool, lines 31-58, once execFile has settled: the result and the
\* table it leaves.
FinishBash(dirs, s, startCwd, process) ==
    [result |-> IF process.exitCode = 0 THEN Success("bash", 0)
                ELSE Failure("bash", "Command failed with exit code 1."),
     dirs |-> updateSessionCwd(dirs, s, startCwd, stripMarker(process))]

\* No bash call in flight; `endedIn` is the directory in which the shell of
\* the session's last finished call ended ("none": no call finished yet).
NoBash == [pc |-> "idle", command |-> Command(TRUE, "none", FALSE, 0),
           startCwd |-> "none", endedIn |-> "none", finished |-> 0]

\* handleBashTool, lines 22-31: up to the execFile call.
BashStart(s, command) ==
    /\ toolCalls < MaxToolCalls
    /\ bashRuns[s].pc = "idle"
    /\ toolCalls' = toolCalls + 1
    /\ IF command.blank
       THEN /\ lastCall' = CallOf("bash", s, "", FALSE, NoText, FALSE, NoText, FALSE,
                                  Failure("bash", "Missing required command string."))
            /\ UNCHANGED bashRuns
       ELSE /\ bashRuns' = [bashRuns EXCEPT ![s].pc = "running", ![s].command = command,
                               ![s].startCwd = getSessionCwd(sessionWorkingDirs, s, projectRoot)]
            /\ UNCHANGED lastCall
    /\ UNCHANGED <<files, readFilesBySession, successfulReads, createdFiles, sessionWorkingDirs, formatRun, batchRun, smVars, pureVars>>

\* handleBashTool, lines 32-58: execFile settles.
BashEnd(s) ==
    /\ bashRuns[s].pc = "running"
    /\ LET process == RunShell(bashRuns[s].command, bashRuns[s].startCwd)
           out == FinishBash(sessionWorkingDirs, s, bashRuns[s].startCwd, process)
       IN  /\ sessionWorkingDirs' = out.dirs
           /\ bashRuns' = [bashRuns EXCEPT ![s].pc = "idle", ![s].endedIn = process.endedIn,
                                           ![s].finished = @ + 1]
           /\ lastCall' = CallOf("bash", s, "", FALSE, NoText, FALSE, NoText, FALSE, out.result)
    /\ UNCHANGED <<files, readFilesBySession, successfulReads, createdFiles, toolCalls, formatRun, batchRun, smVars, pureVars>>


\* ---- executor.ts: formatToolResult ----
\* An optional field of a ToolExecutionResult: absent (undefined) or a value.
Absent == [present |-> FALSE, value |-> ""]
Present(value) == [present |-> TRUE, value |-> value]

\* ToolExecutionResult.  A metadata object is written as the text of its
\* JSON form: "{}" has no keys.
ToolResult(ok, name, output, error, metadata) ==
    [ok |-> ok, name |-> name, output |-> output, error |-> error, metadata |-> metadata]

\* JSON.stringify of a boolean.
BoolText(b) == IF b THEN "true" ELSE "false"

\* formatToolResult: the payload in the order its keys are set, which is the
\* order JSON.stringify writes them in; a member is <<key, JSON text of the value>>.
formatToolResult(result) ==
    LET p1 == <<<<"ok", BoolText(result.ok)>>, <<"name", result.name>>>>
        \* typeof result.output !== "undefined"
        p2 == IF result.output.present THEN Append(p1, <<"output", result.output.value>>) ELSE p1
        \* if (result.error): undefined and "" are both falsy
        p3 == IF result.error.present /\ result.error.value # ""
              THEN Append(p2, <<"error", result.error.value>>) ELSE p2
        \* result.metadata && Object.keys(result.metadata).length > 0
        p4 == IF result.metadata.present /\ result.metadata.value # "{}"
              THEN Append(p3, <<"metadata", result.metadata.value>>) ELSE p3
    IN  p4

\* JSON.parse of a payload: its keys in order, and the value of a key.
PayloadKeys(payload) == [i \in 1 .. Len(payload) |-> payload[i][1]]

HasKey(payload, key) == \E i \in 1 .. Len(payload) : payload[i][1] = key

PayloadValue(payload, key) ==
    payload[CHOOSE i \in 1 .. Len(payload) : payload[i][1] = key][2]

\* The results formatToolResult is applied to.
OptionalTexts == {Absent, Present(""), Present("text")}

ToolResults ==
    {ToolResult(ok, name, output, error, metadata) :
        ok \in BOOLEAN, name \in {"read", "bash"}, output \in OptionalTexts,
        error \in OptionalTexts, metadata \in {Absent, Present("{}"), Present("{cwd}")}}

NoFormat == [result |-> ToolResult(FALSE, "none", Absent, Absent, Absent),
             content |-> <<>>, done |-> FALSE]

\* executeToolCalls, line 58: content = this.formatToolResult(result).
FormatResult ==
    /\ ~formatRun.done
    /\ formatRun' = [formatRun EXCEPT !.content = formatToolResult(formatRun.result),
                                      !.done = TRUE]
    /\ UNCHANGED <<files, readFilesBySession, successfulReads, createdFiles, lastCall, toolCalls,
                   sessionWorkingDirs, bashRuns, batchRun, smVars, pureVars>>


\* ---- executor.ts: executeToolCalls ----
\* Calls in one batch, and batches in one behaviour of BatchSpec.
MaxBatch == 3

\* A member of the tool_calls array.  `wellFormed`: it is an object with a
\* string id and a function object with a string name.  `json` tells what
\* function.arguments is: the text of a JSON object, "" ("empty"), text that
\* is no JSON ("invalid"), or JSON that is no object ("notObject").
BatchCall(wellFormed, name, json, path, content, command) ==
    [id |-> 0, wellFormed |-> wellFormed, name |-> name, json |-> json,
     file_path |-> path, content |-> content, command |-> command]

NoCommand == Command(TRUE, "none", FALSE, 0)

BatchMenu ==
    {BatchCall(TRUE, "read", "object", "/w/f", NoText, NoCommand),
     BatchCall(TRUE, "read", "object", "f", NoText, NoCommand),
     BatchCall(TRUE, "write", "object", "/w/f", <<"a", "a">>, NoCommand),
     BatchCall(TRUE, "edit", "object", "/w/f", <<"$">>, NoCommand),
     BatchCall(TRUE, "bash", "object", "", NoText, Command(FALSE, "/tmp", FALSE, 0)),
     BatchCall(TRUE, "bash", "object", "", NoText, Command(FALSE, "none", FALSE, 1)),
     BatchCall(TRUE, "nope", "object", "", NoText, NoCommand),
     BatchCall(TRUE, "read", "invalid", "", NoText, NoCommand),
     BatchCall(TRUE, "write", "notObject", "", NoText, NoCommand),
     BatchCall(FALSE, "read", "object", "/w/f", NoText, NoCommand)}

\* The tool_calls arrays: the i-th member has id i.
BatchesOf(n) == {[i \in 1 .. n |-> [b[i] EXCEPT !.id = i]] : b \in [1 .. n -> BatchMenu]}

\* registerToolHandlers
toolHandlers == {"bash", "read", "write", "edit"}

\* parseToolCall on a member of a batch: null unless it is well formed.
parseBatchCall(call) == call.wellFormed

\* parseToolArguments: "" gives {}, an object gives itself, anything else an error.
parseToolArguments(call) ==
    IF call.json = "empty"
    THEN [ok |-> TRUE, error |-> "none",
          args |-> [call EXCEPT !.file_path = "", !.content = NoText, !.command = NoCommand]]
    ELSE IF call.json = "invalid"
    THEN [ok |-> FALSE, error |-> "Failed to parse tool arguments", args |-> call]
    ELSE IF call.json = "notObject"
    THEN [ok |-> FALSE, error |-> "Tool arguments must be a JSON object.", args |-> call]
    ELSE [ok |-> TRUE, error |-> "none", args |-> call]

\* What a handler works on and leaves: the files, the read-tracking table and
\* the working directories.
ToolState(fsys, table, dirs) == [files |-> fsys, table |-> table, dirs |-> dirs]

Executed(result, st, threw) == [result |-> result, state |-> st, threw |-> threw]

\* The handler registered for the call's name, run to its end on `st`.
RunHandler(args, s, st) ==
    IF args.name = "bash"
    THEN IF args.command.blank
         THEN Executed(Failure("bash", "Missing required command string."), st, FALSE)
         ELSE LET startCwd == getSessionCwd(st.dirs, s, projectRoot)
                  out == FinishBash(st.dirs, s, startCwd, RunShell(args.command, startCwd))
              IN  Executed(out.result, [st EXCEPT !.dirs = out.dirs], FALSE)
    ELSE LET out == IF args.name = "read"
                    THEN handleReadTool([file_path |-> args.file_path, rangeOk |-> TRUE],
                                        s, st.files, st.table)
                    ELSE IF args.name = "write"
                    THEN handleWriteTool([file_path |-> args.file_path,
                                          hasContent |-> args.json # "empty",
                                          content |-> args.content], s, st.files, st.table)
                    ELSE handleEditTool([file_path |-> args.file_path,
                                         hasOld |-> args.json # "empty", old_string |-> <<"a">>,
                                         hasNew |-> args.json # "empty",
                                         new_string |-> args.content,
                                         replace_all |-> FALSE], s, st.files, st.table)
         IN  Executed(out.result, [st EXCEPT !.files = out.files, !.table = out.table], FALSE)

\* executeToolCall that lets the handler's exception through.
executeToolCall_NoCatch(s, call, st, handlerThrows) ==
    IF call.name \notin toolHandlers
    THEN Executed(Failure(call.name, "Unknown tool"), st, FALSE)
    ELSE IF ~parseToolArguments(call).ok
    THEN Executed(Failure(call.name, parseToolArguments(call).error), st, FALSE)
    ELSE IF handlerThrows
    THEN Executed(Failure(call.name, "thrown"), st, TRUE)
    ELSE RunHandler(parseToolArguments(call).args, s, st)

\* executeToolCall, lines 108-142.  `handlerThrows`: the handler raises an
\* exception instead of returning; the catch block makes a result of it.
executeToolCall(s, call, st, handlerThrows) ==
    IF call.name \notin toolHandlers
    THEN Executed(Failure(call.name, "Unknown tool"), st, FALSE)
    ELSE IF ~parseToolArguments(call).ok
    THEN Executed(Failure(call.name, parseToolArguments(call).error), st, FALSE)
    ELSE IF handlerThrows
    THEN Executed(Failure(call.name, "thrown"), st, FALSE)
    ELSE RunHandler(parseToolArguments(call).args, s, st)

\* The for-of loop taken from the end of parsedCalls.
NextCallIndex_FromEnd(run) == Len(run.parsed) - Len(run.executions)

\* executeToolCalls, line 54: for (const toolCall of parsedCalls).
NextCallIndex(run) == Len(run.executions) + 1

\* The tool result as formatToolResult receives it.
AsToolResult(result) ==
    ToolResult(result.ok, result.name,
               IF result.ok THEN Present("text") ELSE Absent,
               IF result.ok THEN Absent ELSE Present(result.error), Absent)

NoBatch == [session |-> Null, pc |-> "idle", calls |-> <<>>, parsed |-> <<>>,
            executions |-> <<>>]

\* executeToolCalls, lines 48-53: the batch is parsed.
StartBatch(s, calls) ==
    /\ batchRun.pc = "idle"
    /\ batchRun' = [session |-> s, calls |-> calls,
                    parsed |-> SelectSeq(calls, parseBatchCall), executions |-> <<>>,
                    pc |-> IF SelectSeq(calls, parseBatchCall) = <<>> THEN "returned"
                           ELSE "running"]
    /\ UNCHANGED <<files, readFilesBySession, successfulReads, createdFiles, lastCall, toolCalls,
                   sessionWorkingDirs, bashRuns, formatRun, smVars, pureVars>>

\* executeToolCalls, lines 54-61: one turn of the loop, and the return after
\* the last one.
ExecuteNext(handlerThrows) ==
    /\ batchRun.pc = "running"
    /\ LET call == batchRun.parsed[NextCallIndex(batchRun)]
           s == batchRun.session
           out == executeToolCall(s, call,
                      ToolState(files, readFilesBySession, sessionWorkingDirs), handlerThrows)
           execution == [toolCallId |-> call.id, result |-> out.result,
                         content |-> formatToolResult(AsToolResult(out.result)),
                         startCwd |-> getSessionCwd(sessionWorkingDirs, s, projectRoot)]
       IN  /\ files' = out.state.files
           /\ readFilesBySession' = out.state.table
           /\ sessionWorkingDirs' = out.state.dirs
           /\ batchRun' =
                 IF out.threw THEN [batchRun EXCEPT !.pc = "rejected"]
                 ELSE [batchRun EXCEPT !.executions = Append(@, execution),
                                       !.pc = IF Len(batchRun.executions) + 1 = Len(batchRun.parsed)
                                              THEN "returned" ELSE "running"]
    /\ UNCHANGED <<successfulReads, createdFiles, lastCall, toolCalls, bashRuns, formatRun, smVars, pureVars>>

(***************************************************************************)
(* The project code (session.ts, getProjectCode).  A workspace path is a   *)
(* sequence of characters.                                                 *)
(***************************************************************************)
\* Length of the workspace paths.
MaxPath == 4

\* A separator of either kind, the drive colon, and two characters of names.
PathChars == {"/", "\\", ":", "-", "a"}

RECURSIVE PathsOfLength(_)
PathsOfLength(n) ==
    IF n = 0 THEN {<<>>}
    ELSE {Append(x, c) : x \in PathsOfLength(n - 1), c \in PathChars}

\* Absolute, normalized paths: they start at the root, hold no empty
\* component and do not end with a separator (the root itself apart).
WorkspacePaths ==
    {path \in UNION {PathsOfLength(k) : k \in 1 .. MaxPath} :
        /\ path[1] = "/"
        /\ \A i \in 1 .. Len(path) - 1 : ~(path[i] = "/" /\ path[i + 1] = "/")
        /\ Len(path) > 1 => path[Len(path)] # "/"}

\* projectRoot.replace(/[\\/]/g, "-").replace(/:/g, "")
getProjectCode(root) ==
    SelectSeq([i \in 1 .. Len(root) |-> IF root[i] \in {"/", "\\"} THEN "-" ELSE root[i]],
              LAMBDA c : c # ":")

NoCode == [pc |-> "idle", a |-> <<>>, b |-> <<>>, codeA |-> <<>>, codeB |-> <<>>]

\* getProjectStorage, lines 465-474, of a manager for workspace a and of one
\* for workspace b.
GetProjectStorage ==
    /\ codeRun.pc = "ready"
    /\ codeRun' = [codeRun EXCEPT !.pc = "done",
                                  !.codeA = getProjectCode(codeRun.a),
                                  !.codeB = getProjectCode(codeRun.b)]
    /\ UNCHANGED <<smVars, files, readFilesBySession, successfulReads, createdFiles, lastCall, toolCalls,
                   sessionWorkingDirs, bashRuns, formatRun, batchRun, pageRun, outputRun>>

(***************************************************************************)
(* Plain-text reads (read-handler.ts, readTextFile).  A file is a sequence *)
(* of characters, "LF" and "CR" being the line feed and the carriage       *)
(* return.                                                                 *)
(***************************************************************************)
\* Length of the files read.
MaxFile == 4
\* The largest offset and limit asked for.
MaxLineArg == 3
\* Lines 7 and 8, where both are 2000, scaled down so that they are reached.
DEFAULT_LINE_LIMIT == 2
MAX_LINE_LENGTH == 2

FileChars == {"a", "LF", "CR"}

RECURSIVE FilesOfLength(_)
FilesOfLength(n) ==
    IF n = 0 THEN {<<>>}
    ELSE {Append(x, c) : x \in FilesOfLength(n - 1), c \in FileChars}

FileTexts == UNION {FilesOfLength(k) : k \in 0 .. MaxFile}

\* raw.split(/\r?\n/)
RECURSIVE SplitFrom(_, _, _, _)
SplitFrom(raw, i, current, done) ==
    IF i > Len(raw) THEN Append(done, current)
    ELSE IF raw[i] = "LF" THEN SplitFrom(raw, i + 1, <<>>, Append(done, current))
    ELSE IF raw[i] = "CR" /\ i < Len(raw) /\ raw[i + 1] = "LF"
    THEN SplitFrom(raw, i + 2, <<>>, Append(done, current))
    ELSE SplitFrom(raw, i + 1, Append(current, raw[i]), done)

SplitLines(raw) == SplitFrom(raw, 1, <<>>, <<>>)

\* An argument of the call: absent (undefined or null), or a number.
NoArg == [given |-> FALSE, value |-> 0]
NumberArg(n) == [given |-> TRUE, value |-> n]

\* parseLineNumber, for integers.
parseLineNumber(arg) ==
    IF ~arg.given THEN [ok |-> TRUE, isNull |-> TRUE, value |-> 0]
    ELSE IF arg.value < 1 THEN [ok |-> FALSE, isNull |-> FALSE, value |-> 0]
    ELSE [ok |-> TRUE, isNull |-> FALSE, value |-> arg.value]

\* parseLineLimit, for integers.
parseLineLimit(arg) ==
    IF ~arg.given THEN [ok |-> TRUE, value |-> DEFAULT_LINE_LIMIT]
    ELSE IF arg.value <= 0 THEN [ok |-> FALSE, value |-> 0]
    ELSE [ok |-> TRUE, value |-> arg.value]

\* Array.prototype.slice(start, end) with 0 <= start <= end.
Slice(lines, start, end) ==
    SubSeq(lines, start + 1, IF end < Len(lines) THEN end ELSE Len(lines))

\* formatWithLineNumbers: each line behind its number, cut at MAX_LINE_LENGTH.
formatWithLineNumbers(lines, startLineNumber) ==
    [i \in 1 .. Len(lines) |->
        [number |-> startLineNumber + i - 1,
         text |-> IF Len(lines[i]) > MAX_LINE_LENGTH THEN SubSeq(lines[i], 1, MAX_LINE_LENGTH)
                  ELSE lines[i]]]

PageOutput(warning, lines) == [warning |-> warning, lines |-> lines]

\* Line 373: offset ? offset - 1 : 0
StartIndex(offset) == IF offset.isNull THEN 0 ELSE offset.value - 1

\* readTextFile
readTextFile(raw, offset, limit) ==
    LET lines == SplitLines(raw)
        startIndex == StartIndex(offset)
        endIndex == startIndex + limit
    IN  IF raw = <<>> \/ lines = <<<<>>>> THEN PageOutput(TRUE, <<>>)
        ELSE PageOutput(FALSE, formatWithLineNumbers(Slice(lines, startIndex, endIndex),
                                                     startIndex + 1))

NoPage == [pc |-> "idle", raw |-> <<>>, offset |-> NoArg, limit |-> NoArg,
           ok |-> FALSE, output |-> PageOutput(FALSE, <<>>)]

\* handleReadTool, lines 205-228, on a text file.
ReadPage ==
    /\ pageRun.pc = "ready"
    /\ LET offset == parseLineNumber(pageRun.offset)
           limit == parseLineLimit(pageRun.limit)
       IN  pageRun' =
              IF ~offset.ok \/ ~limit.ok
              THEN [pageRun EXCEPT !.pc = "done", !.ok = FALSE]
              ELSE [pageRun EXCEPT !.pc = "done", !.ok = TRUE,
                                   !.output = readTextFile(pageRun.raw, offset, limit.value)]
    /\ UNCHANGED <<smVars, files, readFilesBySession, successfulReads, createdFiles, lastCall, toolCalls,
                   sessionWorkingDirs, bashRuns, formatRun, batchRun, codeRun, outputRun>>

(***************************************************************************)
(* The output of a shell call (bash-handler.ts, buildToolCommandResult).   *)
(* A text is a sequence of characters: "LF" is the line feed, "M" the      *)
(* marker the wrapper prints, "d" the directory printed behind it.         *)
(***************************************************************************)
\* Line 6, where it is 30000, scaled down so that it is reached.
MAX_OUTPUT_CHARS == 3
\* Length of what the command writes to stdout and to stderr.
MaxOwn == 3
MaxErr == 2

CharsUpTo(chars, n) == UNION {[1 .. k -> chars] : k \in 0 .. n}

OwnTexts == CharsUpTo({"a", "LF"}, MaxOwn)
ErrTexts == CharsUpTo({"e"}, MaxErr)

\* buildShellCommand, lines 79-84: the command runs, then
\* printf '%s%s\n' marker $PWD, unless the shell has gone before.
ShellStdout(own, reached) == IF reached THEN own \o <<"M", "d", "LF">> ELSE own

\* lines.join("\n")
RECURSIVE JoinLines(_)
JoinLines(lines) ==
    IF lines = <<>> THEN <<>>
    ELSE IF Len(lines) = 1 THEN lines[1]
    ELSE lines[1] \o <<"LF">> \o JoinLines(Tail(lines))

\* lines[i].startsWith(marker)
startsWithMarker(line) == line # <<>> /\ line[1] = "M"

\* stripMarker, lines 141-163, on the text of stdout.
stripMarkerText(stdout) ==
    LET lines == SplitLines(stdout)
        found == {i \in 1 .. Len(lines) : startsWithMarker(lines[i])}
    IN  IF stdout = <<>> THEN [output |-> <<>>, cwd |-> "none"]
        ELSE IF found = {} THEN [output |-> stdout, cwd |-> "none"]
        ELSE LET markerIndex == CHOOSE i \in found : \A j \in found : j <= i
                 markerLine == lines[markerIndex]
             IN  [output |-> JoinLines([k \in 1 .. Len(lines) - 1 |->
                                           IF k < markerIndex THEN lines[k] ELSE lines[k + 1]]),
                  cwd |-> IF Len(markerLine) = 1 THEN "none" ELSE markerLine[2]]

\* joinOutput, lines 165-172
joinOutput(stdout, stderr) ==
    IF stdout # <<>> /\ stderr # <<>> THEN stdout \o <<"LF">> \o stderr
    ELSE IF stdout # <<>> THEN stdout ELSE stderr

\* truncateOutput, lines 174-179
truncateOutput(output) ==
    IF Len(output) <= MAX_OUTPUT_CHARS THEN [text |-> output, truncated |-> FALSE]
    ELSE [text |-> SubSeq(output, 1, MAX_OUTPUT_CHARS), truncated |-> TRUE]

\* buildToolCommandResult, lines 121-139
buildToolCommandResult(stdout, stderr, exitCode) ==
    LET stripped == stripMarkerText(stdout)
        cut == truncateOutput(joinOutput(stripped.output, stderr))
    IN  [ok |-> exitCode = 0, output |-> cut.text, cwd |-> stripped.cwd,
         exitCode |-> exitCode, truncated |-> cut.truncated]

NoOutput == [pc |-> "idle", own |-> <<>>, reached |-> FALSE, stderr |-> <<>>, exitCode |-> 0,
             result |-> [ok |-> FALSE, output |-> <<>>, cwd |-> "none", exitCode |-> 0,
                         truncated |-> FALSE]]

\* handleBashTool, lines 35-58: execFile has settled with the process's
\* stdout, stderr and exit status, and the result is built.
BuildResult ==
    /\ outputRun.pc = "ready"
    /\ outputRun' = [outputRun EXCEPT
                        !.pc = "done",
                        !.result = buildToolCommandResult(
                                       ShellStdout(outputRun.own, outputRun.reached),
                                       outputRun.stderr, outputRun.exitCode)]
    /\ UNCHANGED <<smVars, files, readFilesBySession, successfulReads, createdFiles, lastCall, toolCalls,
                   sessionWorkingDirs, bashRuns, formatRun, batchRun, codeRun, pageRun>>

PureIdle ==
    /\ codeRun = NoCode
    /\ pageRun = NoPage
    /\ outputRun = NoOutput

\* No tool has been called.
ToolIdleButPure ==
    /\ files = [f \in {"/w/f"} |-> [kind |-> "missing", content |-> <<>>]]
    /\ readFilesBySession = {}
    /\ successfulReads = {}
    /\ createdFiles = {}
    /\ toolCalls = 0
    /\ sessionWorkingDirs = [s \in ToolSessions |-> "none"]
    /\ bashRuns = [s \in ToolSessions |-> NoBash]
    /\ formatRun = NoFormat
    /\ batchRun = NoBatch
    /\ lastCall = NoCall

ExecIdle ==
    /\ sessionWorkingDirs = [s \in ToolSessions |-> "none"]
    /\ bashRuns = [s \in ToolSessions |-> NoBash]
    /\ formatRun = NoFormat
    /\ batchRun = NoBatch
    /\ PureIdle

\* The file system changes behind the tools' back (a shell command, the
\* user's editor): the file is removed, or replaced by a directory or a file.
OutsideChange(f, state) ==
    /\ files[f] # state
    /\ files' = [files EXCEPT ![f] = state]
    /\ UNCHANGED <<readFilesBySession, successfulReads, createdFiles, lastCall, toolCalls, smVars, execVars>>

SessionManagerIdle ==
    /\ index = <<>>
    /\ logs = [s \in SessionIds |-> NoLog]
    /\ activeSessionId = Null
    /\ sessionControllers = [s \in SessionIds |-> Null]
    /\ abortedControllers = {}
    /\ runs = [r \in RunIds |-> IdleRun]
    /\ emitted = [s \in SessionIds |-> <<>>]
    /\ clock = 0
    /\ nextSession = 1
    /\ nextRun = 1

\* The texts ToolSpec writes, looks for and puts in.
ToolTexts == {<<>>, <<"a">>, <<"a", "a">>}

ToolInit ==
    /\ SessionManagerIdle
    /\ files \in [CanonicalFiles -> {Missing, Directory, FileWith(<<"a">>), FileWith(<<"a", "a">>)}]
    /\ readFilesBySession = {}
    /\ successfulReads = {}
    /\ createdFiles = {}
    /\ lastCall = NoCall
    /\ toolCalls = 0
    /\ ExecIdle

ToolNext ==
    \/ \E s \in ToolSessions, path \in PathStrings, rangeOk \in BOOLEAN : ReadCall(s, path, rangeOk)
    \/ \E s \in ToolSessions, path \in PathStrings, content \in ToolTexts :
          WriteCall(s, path, TRUE, content)
    \/ \E s \in ToolSessions, path \in PathStrings : WriteCall(s, path, FALSE, NoText)
    \/ \E s \in ToolSessions, path \in PathStrings, old \in {<<>>, <<"a">>}, new \in ToolTexts,
          replaceAll \in BOOLEAN : EditCall(s, path, TRUE, old, TRUE, new, replaceAll)
    \/ \E s \in ToolSessions, path \in PathStrings, hasOld \in BOOLEAN, hasNew \in BOOLEAN :
          /\ ~(hasOld /\ hasNew)
          /\ EditCall(s, path, hasOld, IF hasOld THEN <<"a">> ELSE NoText,
                      hasNew, IF hasNew THEN <<"a">> ELSE NoText, FALSE)
    \/ \E f \in CanonicalFiles, state \in {Missing, Directory, FileWith(<<"a">>)} :
          OutsideChange(f, state)

ToolSpec == ToolInit /\ [][ToolNext]_vars

\* Reads by relative path in a project tree with subdirectories: every file
\* of the tree is missing or a regular file, the file at the root may also be
\* a directory or be ignored, and a file in d may be ignored.
ReadInit ==
    /\ SessionManagerIdle
    /\ files \in [TreeFiles -> {Missing, FileWith(<<"a">>), Directory, IgnoredFile(<<"a">>)}]
    /\ \A f \in TreeFiles \ {"/w/f", "/w/d/f"} : files[f].kind \in {"missing", "file"}
    /\ files["/w/d/f"].kind # "dir"
    /\ readFilesBySession = {}
    /\ successfulReads = {}
    /\ createdFiles = {}
    /\ lastCall = NoCall
    /\ toolCalls = 0
    /\ ExecIdle

ReadNext ==
    \E s \in ToolSessions, path \in RelativePaths \cup {"/w/d/f"}, rangeOk \in BOOLEAN :
        ReadCall(s, path, rangeOk)

ReadSpec == ReadInit /\ [][ReadNext]_vars

\* The edit handler as a function of the file's text and its arguments: the
\* file exists, session 1 has read it, and one edit is made.
EditInit ==
    /\ SessionManagerIdle
    /\ files \in [CanonicalFiles -> {FileWith(text) : text \in TextsUpTo(MaxText)}]
    /\ readFilesBySession = {<<1, "/w/f">>}
    /\ successfulReads = {<<1, "/w/f">>}
    /\ createdFiles = {}
    /\ lastCall = NoCall
    /\ toolCalls = 0
    /\ ExecIdle

EditNext ==
    \E old \in TextsUpTo(MaxArg) \ {<<>>}, new \in TextsUpTo(MaxArg), replaceAll \in BOOLEAN :
        /\ toolCalls = 0
        /\ EditCall(1, "/w/f", TRUE, old, TRUE, new, replaceAll)

EditSpec == EditInit /\ [][EditNext]_vars


\* The shell tool called by two sessions, their calls interleaved.
BashInit ==
    /\ SessionManagerIdle
    /\ files = [f \in CanonicalFiles |-> Missing]
    /\ readFilesBySession = {}
    /\ successfulReads = {}
    /\ createdFiles = {}
    /\ lastCall = NoCall
    /\ toolCalls = 0
    /\ ExecIdle

BashNext ==
    \/ \E s \in ToolSessions, command \in BashCommands : BashStart(s, command)
    \/ \E s \in ToolSessions : BashEnd(s)

BashSpec == BashInit /\ [][BashNext]_vars


\* formatToolResult as a function of the result it is given.
FormatInit ==
    /\ SessionManagerIdle
    /\ files = [f \in CanonicalFiles |-> Missing]
    /\ readFilesBySession = {}
    /\ successfulReads = {}
    /\ createdFiles = {}
    /\ lastCall = NoCall
    /\ toolCalls = 0
    /\ sessionWorkingDirs = [s \in ToolSessions |-> "none"]
    /\ bashRuns = [s \in ToolSessions |-> NoBash]
    /\ batchRun = NoBatch
    /\ PureIdle
    /\ formatRun \in {[NoFormat EXCEPT !.result = r] : r \in ToolResults}

FormatSpec == FormatInit /\ [][FormatResult]_vars


\* One executeToolCalls invocation on a batch of up to MaxBatch calls.
BatchInit ==
    /\ SessionManagerIdle
    /\ files \in [CanonicalFiles -> {Missing, FileWith(<<"a">>)}]
    /\ readFilesBySession \in {{}, {<<2, "/w/f">>}}
    /\ successfulReads = readFilesBySession
    /\ createdFiles = {}
    /\ lastCall = NoCall
    /\ toolCalls = 0
    /\ ExecIdle

BatchNext ==
    \/ \E s \in ToolSessions, n \in 1 .. MaxBatch : \E calls \in BatchesOf(n) :
          StartBatch(s, calls)
    \/ \E handlerThrows \in BOOLEAN : ExecuteNext(handlerThrows)

BatchSpec == BatchInit /\ [][BatchNext]_vars


\* getProjectCode as a function of two workspace paths.
CodeInit ==
    /\ SessionManagerIdle
    /\ ToolIdleButPure
    /\ pageRun = NoPage
    /\ outputRun = NoOutput
    /\ codeRun \in {[NoCode EXCEPT !.pc = "ready", !.a = a, !.b = b] : a, b \in WorkspacePaths}

CodeSpec == CodeInit /\ [][GetProjectStorage]_vars

\* readTextFile as a function of the file's text, the offset and the limit.
PageArgs == {NoArg} \cup {NumberArg(n) : n \in 0 .. MaxLineArg}

PageInit ==
    /\ SessionManagerIdle
    /\ ToolIdleButPure
    /\ codeRun = NoCode
    /\ outputRun = NoOutput
    /\ pageRun \in {[NoPage EXCEPT !.pc = "ready", !.raw = raw, !.offset = o, !.limit = l] :
                       raw \in FileTexts, o \in PageArgs, l \in PageArgs}

PageSpec == PageInit /\ [][ReadPage]_vars

\* buildToolCommandResult as a function of what the command wrote, of whether
\* the shell reached the wrapper's printf, of stderr and of the exit status.
OutputInit ==
    /\ SessionManagerIdle
    /\ ToolIdleButPure
    /\ codeRun = NoCode
    /\ pageRun = NoPage
    /\ outputRun \in {[NoOutput EXCEPT !.pc = "ready", !.own = own, !.reached = reached,
                                       !.stderr = err, !.exitCode = code] :
                         own \in OwnTexts, reached \in BOOLEAN, err \in ErrTexts,
                         code \in {0, 1}}

OutputSpec == OutputInit /\ [][BuildResult]_vars

\* The session manager's specifications leave the tools alone.
ToolIdle ==
    /\ files = [f \in CanonicalFiles |-> Missing]
    /\ readFilesBySession = {}
    /\ successfulReads = {}
    /\ createdFiles = {}
    /\ lastCall = NoCall
    /\ toolCalls = 0
    /\ ExecIdle

Init ==
    /\ index = <<>>
    /\ logs = [s \in SessionIds |-> NoLog]
    /\ activeSessionId = Null
    /\ sessionControllers = [s \in SessionIds |-> Null]
    /\ abortedControllers = {}
    /\ runs = [r \in RunIds |-> IdleRun]
    /\ emitted = [s \in SessionIds |-> <<>>]
    /\ clock = 0
    /\ nextSession = 1
    /\ nextRun = 1
    /\ ToolIdle

\* The responses Spec draws from: a plain reply, a refusal and a batch of one
\* shell call.
LoopResponses ==
    {Response(FALSE, TRUE, <<>>), Response(TRUE, TRUE, <<>>),
     Response(FALSE, TRUE, RawCalls(<<"bash">>))}

\* The agent loop under prompts and interrupts.
Next ==
    \/ /\ CreatesSession => nextSession <= LoopSessions
       /\ nextRun <= LoopRuns
       /\ \E nSkills \in 0 .. 1, hasClient \in BOOLEAN : handleUserPrompt(nSkills, hasClient)
    \/ \E r \in RunIds, resp \in LoopResponses : ModelReturns(r, resp)
    \/ \E r \in RunIds : ModelFails(r)
    \/ \E r \in RunIds, ok \in BOOLEAN : ToolReturns(r, ok)
    \/ interruptSession
    \/ \E s \in SessionIds : loadSession(s)
    \/ createNewSession
    \/ Tick

Spec == Init /\ [][Next]_vars

\* The loop of one session under prompts and interrupts, with every model
\* call and every tool execution returning.
LoopRunIds == 1 .. LoopRuns

LoopNext ==
    \/ /\ CreatesSession => nextSession <= LoopSessions
       /\ nextRun <= LoopRuns
       /\ \E hasClient \in BOOLEAN : handleUserPrompt(0, hasClient)
    \/ \E r \in LoopRunIds, resp \in LoopResponses : ModelReturns(r, resp)
    \/ \E r \in LoopRunIds : ModelFails(r)
    \/ \E r \in LoopRunIds, ok \in BOOLEAN : ToolReturns(r, ok)
    \/ interruptSession

Returns(r) ==
    \/ \E resp \in LoopResponses : ModelReturns(r, resp)
    \/ ModelFails(r)
    \/ \E ok \in BOOLEAN : ToolReturns(r, ok)

FairSpec == Init /\ [][LoopNext]_vars /\ \A r \in LoopRunIds : WF_vars(Returns(r))

\* The responses of a model turn: a plain reply, a refusal, a batch of one
\* shell call, a refusal that carries a batch, and a batch whose only call is
\* malformed.
TurnResponses ==
    LoopResponses
    \cup {Response(TRUE, FALSE, RawCalls(<<"bash">>)),
          Response(FALSE, FALSE, RawCalls(<<"malformed">>))}

\* The turns of the loop, one by one, under prompts and interrupts.
TurnNext ==
    \/ /\ CreatesSession => nextSession <= LoopSessions
       /\ nextRun <= LoopRuns
       /\ \E hasClient \in BOOLEAN : handleUserPrompt(0, hasClient)
    \/ \E r \in LoopRunIds, resp \in TurnResponses : ModelReturns(r, resp)
    \/ \E r \in LoopRunIds : ModelFails(r)
    \/ \E r \in LoopRunIds, ok \in BOOLEAN : ToolReturns(r, ok)
    \/ interruptSession
    \/ createNewSession

TurnSpec == Init /\ [][TurnNext]_vars

\* The tools a call may name; "malformed" is a call parseToolCall drops.
CallNames == {"bash", "read", "write", "edit", "malformed"}

\* Responses that carry a batch of one call or of two (a shell call with a
\* read or with a malformed call, in either order), and the plain reply.
BatchResponses ==
    {Response(FALSE, TRUE, <<>>)}
    \cup {Response(FALSE, TRUE, RawCalls(<<a>>)) : a \in CallNames}
    \cup {Response(FALSE, TRUE, RawCalls(b)) :
            b \in {<<"bash", "read">>, <<"read", "bash">>,
                   <<"bash", "malformed">>, <<"malformed", "bash">>}}

\* The model responses BatchTurnSpec lets a session's log take.
MaxBatchTurns == 2

AssistantMessages(lines) ==
    Cardinality({i \in 1 .. Len(lines) : lines[i].role = "assistant"})

\* One session, its batches executed call by call, under prompts and
\* interrupts.
BatchTurnNext ==
    \/ /\ nextSession <= 2
       /\ nextRun <= LoopRuns
       /\ CreatesSession => nextSession = 1
       /\ handleUserPrompt(0, TRUE)
    \/ \E r \in LoopRunIds, resp \in BatchResponses :
          /\ runs[r].pc = "model"
          /\ AssistantMessages(logs[runs[r].session].lines) < MaxBatchTurns
          /\ ModelReturns(r, resp)
    \/ \E r \in LoopRunIds, ok \in BOOLEAN : ToolReturns(r, ok)
    \/ interruptSession

BatchTurnSpec == Init /\ [][BatchTurnNext]_vars

\* Retention: more sessions than the index keeps, each run answered by a plain
\* reply or failing.
RetentionNext ==
    \/ \E nSkills \in 0 .. 1, hasClient \in BOOLEAN : handleUserPrompt(nSkills, hasClient)
    \/ \E r \in RunIds : ModelReturns(r, Response(FALSE, TRUE, <<>>))
    \/ \E r \in RunIds : ModelFails(r)
    \/ \E s \in SessionIds : loadSession(s)
    \/ createNewSession
    \/ Tick

RetentionSpec == Init /\ [][RetentionNext]_vars

(***************************************************************************)
(* Properties of the session manager.                                      *)
(***************************************************************************)
\* A loop run: an activateSession invocation that registered its handle and
\* has not exited (it is suspended at the model call or in executeToolCalls).
InProgress(r) == runs[r].pc \in {"model", "tools"}

StatusOf(idx, s) == getSession(idx, s).status

\* The messages run r has appended to the log of its session.
AppendedBy(lg, r) ==
    Cardinality({i \in 1 .. Len(lg[runs[r].session].lines) :
                    lg[runs[r].session].lines[i].run = r})

IsPrefix(a, b) == Len(a) <= Len(b) /\ SubSeq(b, 1, Len(a)) = a

\* C1: at any time at most one loop run (an activateSession invocation that
\* has registered its cancellation handle and has not exited) exists per
\* session, whatever the interleaving of prompts and interrupts.
C1_OneRunPerSession ==
    \A r1, r2 \in RunIds :
        (InProgress(r1) /\ InProgress(r2) /\ runs[r1].session = runs[r2].session)
            => r1 = r2

\* C2: once interruptSession(S) has been called while a run of S is in
\* progress (its handle was aborted), that run appends no further message to
\* S's log, and the interrupt leaves S's status interrupted.
C2_InterruptStopsAppends ==
    [][\A r \in RunIds :
          /\ (r \in abortedControllers /\ InProgress(r))
                => AppendedBy(logs', r) <= AppendedBy(logs, r)
          /\ (r \notin abortedControllers /\ r \in abortedControllers'
                /\ HasSession(index', runs[r].session))
                => StatusOf(index', runs[r].session) = "interrupted"]_vars

\* C3: the status of a session changes only along the state machine: a prompt
\* on the session sets pending (and its activation processing, or failed
\* without a model capability); otherwise pending goes to processing or
\* failed, processing to processing, completed, failed or interrupted, and a
\* completed, failed or interrupted session keeps its status.
C3_StatusStateMachine ==
    [][\A s \in SessionIds :
          (HasSession(index, s) /\ HasSession(index', s)) =>
              LET a == StatusOf(index, s)
                  b == StatusOf(index', s)
              IN  IF nextRun' # nextRun /\ activeSessionId' = s
                  THEN b \in {"pending", "processing", "failed"}
                  ELSE \/ a = b
                       \/ a = "pending" /\ b \in {"processing", "failed"}
                       \/ a = "processing"
                          /\ b \in {"processing", "completed", "failed", "interrupted"}]_vars

\* The sessions a createSession step drops: the previous entries and the new
\* one, less the entries it keeps.
DroppedByStep == (IndexIds(index) \cup {nextSession}) \ IndexIds(index')

UpdateTimeBeforeStep(s) ==
    IF s = nextSession THEN clock ELSE getSession(index, s).updateTime

\* C7: after every createSession the index holds at most MAX_SESSION_ENTRIES
\* entries, they are the most recently updated among the previous entries and
\* the new one, the log of every dropped session is deleted, and creating
\* cap + k sessions leaves exactly cap entries.
C7_RetentionBound ==
    [][nextSession' = nextSession + 1 =>
          /\ Len(index') <= MAX_SESSION_ENTRIES
          /\ \A k \in IndexIds(index'), d \in DroppedByStep :
                getSession(index', k).updateTime >= UpdateTimeBeforeStep(d)
          /\ \A d \in DroppedByStep : ~logs'[d].exists
          /\ Len(index') =
                IF nextSession < MAX_SESSION_ENTRIES THEN nextSession ELSE MAX_SESSION_ENTRIES]_vars

\* C8: messages never outlive their session's retention: every log in storage
\* belongs to a session of the index, and once a session is evicted no message
\* is appended for it again, also when its run was in progress at eviction.
C8_NoLogWithoutSession ==
    /\ [](\A s \in SessionIds : logs[s].exists => HasSession(index, s))
    /\ [][\A s \in SessionIds :
             (s < nextSession /\ ~HasSession(index, s))
                => Len(logs'[s].lines) <= Len(logs[s].lines)]_vars

\* What createSession writes for a new session with n skills.
RECURSIVE SkillMessages(_)
SkillMessages(n) ==
    IF n = 0 THEN <<>> ELSE <<buildSystemMessage("skill")>> \o SkillMessages(n - 1)

\* C9: every non-empty session log starts with a non-visible system message;
\* the log of a newly created session is the operating instructions, one
\* non-visible system message per skill, then the user's message.
C9_LogStartsWithSystemMessage ==
    /\ [](\A s \in SessionIds :
             (logs[s].exists /\ logs[s].lines # <<>>)
                => (logs[s].lines[1].role = "system" /\ ~logs[s].lines[1].visible))
    /\ [][nextSession' = nextSession + 1 =>
             \E n \in 0 .. 1 :
                logs'[nextSession].lines =
                    <<buildSystemMessage("instructions")>> \o SkillMessages(n)
                        \o <<buildUserMessage("prompt")>>]_vars

\* loadSession (extension.ts, lines 144-145): the messages the view replays.
VisibleMessages(lines) == SelectSeq(lines, LAMBDA m : m.visible)

\* C10: the log of a retained session is append-only: every step leaves the
\* records it held in place and in order and adds new ones at the end only,
\* listSessionMessages returns them in that order, and so does the view's
\* filter of the visible ones.
C10_AppendOnly ==
    [][\A s \in SessionIds :
          (HasSession(index, s) /\ HasSession(index', s)) =>
              /\ IsPrefix(logs[s].lines, logs'[s].lines)
              /\ IsPrefix(listSessionMessages(logs, s), listSessionMessages(logs', s))
              /\ IsPrefix(VisibleMessages(listSessionMessages(logs, s)),
                          VisibleMessages(listSessionMessages(logs', s)))]_vars

\* A retained session whose log holds the opening messages and more behind
\* them, some of them not visible, after another session was evicted.
C10_Witness ==
    \E s \in SessionIds :
        /\ HasSession(index, s)
        /\ Len(listSessionMessages(logs, s)) >= 3
        /\ \E i \in 1 .. Len(logs[s].lines) : logs[s].lines[i].role = "assistant"
        /\ Len(VisibleMessages(listSessionMessages(logs, s))) < Len(logs[s].lines)
        /\ \E e \in SessionIds : e < nextSession /\ ~HasSession(index, e) /\ ~logs[e].exists

(***************************************************************************)
(* Properties of the file tools.                                           *)
(***************************************************************************)
\* The step is a call of `tool`.
Called(tool) == toolCalls' = toolCalls + 1 /\ lastCall'.tool = tool

\* C4: a write to a path that exists as a file is rejected with the
\* read-precondition error and leaves the file as it is, unless the same
\* session has completed a successful read of exactly that path; after such
\* a read the write succeeds.  A read by another session does not count.
C4_WriteNeedsRead ==
    [][(/\ Called("write")
        /\ isAbsolute(lastCall'.file_path)
        /\ lastCall'.hasNew
        /\ files[FileAt(lastCall'.file_path)].kind = "file")
       => IF <<lastCall'.session, lastCall'.file_path>> \in successfulReads
          THEN /\ lastCall'.result.ok
               /\ files'[FileAt(lastCall'.file_path)] = FileWith(lastCall'.new_string)
          ELSE /\ ~lastCall'.result.ok
               /\ lastCall'.result.error = "Must read existing file before writing."
               /\ files' = files]_vars

\* A write was rejected for want of a read although another session has read
\* that very path, and the file is still there.
C4_Witness ==
    /\ lastCall.tool = "write"
    /\ lastCall.result.error = "Must read existing file before writing."
    /\ files[FileAt(lastCall.file_path)].kind = "file"
    /\ \E other \in ToolSessions \ {lastCall.session} :
          <<other, lastCall.file_path>> \in successfulReads

EditArgumentsValid(call) ==
    /\ isAbsolute(call.file_path)
    /\ call.hasOld /\ call.hasNew
    /\ call.old_string # <<>>
    /\ call.old_string # call.new_string

\* C5: an edit with valid arguments on a path the session has not read fails
\* with the must-read error whether or not the file exists, and changes
\* neither the file system nor the read-tracking table.
C5_EditNeedsReadFirst ==
    [][(/\ Called("edit")
        /\ EditArgumentsValid(lastCall')
        /\ <<lastCall'.session, lastCall'.file_path>> \notin successfulReads)
       => /\ ~lastCall'.result.ok
          /\ lastCall'.result.error = "Must read file before editing."
          /\ files' = files
          /\ readFilesBySession' = readFilesBySession]_vars

\* An edit with valid arguments of a file that does not exist, by a session
\* that has not read the path, was refused for want of the read.
C5_Witness ==
    /\ lastCall.tool = "edit"
    /\ EditArgumentsValid(lastCall)
    /\ <<lastCall.session, lastCall.file_path>> \notin successfulReads
    /\ files[FileAt(lastCall.file_path)].kind = "missing"
    /\ lastCall.result.error = "Must read file before editing."

\* The occurrences of `needle` in `text`, taken left to right without overlap.
RECURSIVE Occurrences(_, _)
Occurrences(text, needle) ==
    IF Len(text) < Len(needle) THEN 0
    ELSE IF SubSeq(text, 1, Len(needle)) = needle
         THEN 1 + Occurrences(SubSeq(text, Len(needle) + 1, Len(text)), needle)
         ELSE Occurrences(Tail(text), needle)

\* `text` with its first `limit` occurrences of `needle` replaced by
\* `replacement`, taken literally.
RECURSIVE ReplacedLiterally(_, _, _, _)
ReplacedLiterally(text, needle, replacement, limit) ==
    IF limit = 0 \/ Len(text) < Len(needle) THEN text
    ELSE IF SubSeq(text, 1, Len(needle)) = needle
         THEN replacement \o ReplacedLiterally(SubSeq(text, Len(needle) + 1, Len(text)),
                                               needle, replacement, limit - 1)
         ELSE <<Head(text)>> \o ReplacedLiterally(Tail(text), needle, replacement, limit)

\* C6: an edit of a read, existing file that holds old_string n times: n = 0
\* fails with the not-found error; n > 1 without replace_all fails with the
\* ambiguity error and leaves the file unchanged; n > 1 with replace_all
\* replaces all n occurrences and reports n; n = 1 replaces that occurrence
\* and reports 1.
C6_EditByOccurrences ==
    [][(/\ Called("edit")
        /\ EditArgumentsValid(lastCall')
        /\ <<lastCall'.session, lastCall'.file_path>> \in successfulReads
        /\ files[FileAt(lastCall'.file_path)].kind = "file")
       => LET raw == files[FileAt(lastCall'.file_path)].content
              old == lastCall'.old_string
              new == lastCall'.new_string
              n == Occurrences(raw, old)
              result == lastCall'.result
              after == files'[FileAt(lastCall'.file_path)]
          IN  /\ n = 0 => (/\ ~result.ok
                           /\ result.error = "old_string not found in file."
                           /\ files' = files)
              /\ (n > 1 /\ ~lastCall'.replace_all)
                    => (/\ ~result.ok
                        /\ result.error = "old_string is not unique; use replace_all or provide more context."
                        /\ files' = files)
              /\ (n > 1 /\ lastCall'.replace_all)
                    => (/\ result.ok
                        /\ result.count = n
                        /\ after = FileWith(ReplacedLiterally(raw, old, new, n)))
              /\ n = 1 => (/\ result.ok
                           /\ result.count = 1
                           /\ after = FileWith(ReplacedLiterally(raw, old, new, 1)))]_vars

(***************************************************************************)
(* Properties of the presentation callback.                                *)
(***************************************************************************)
\* What onAssistantMessage is handed for the appended messages `lines`.
Notices(lines) ==
    [i \in 1 .. Len(lines) |->
        [role |-> lines[i].role, kind |-> lines[i].kind, persisted |-> TRUE]]

\* The part of `b` behind its first Len(a) elements.
Behind(a, b) == SubSeq(b, Len(a) + 1, Len(b))

\* C11: the presentation callback is invoked exactly once for every message
\* appended to a session log (system, skill, user, assistant and tool
\* messages alike), in append order: what a step adds to the log of a session
\* is what it hands to the callback for that session, in the same order.
C11_CallbackPerAppendedMessage ==
    [][\A s \in SessionIds :
          (HasSession(index', s) /\ IsPrefix(logs[s].lines, logs'[s].lines))
             => /\ IsPrefix(emitted[s], emitted'[s])
                /\ Behind(emitted[s], emitted'[s])
                      = Notices(Behind(logs[s].lines, logs'[s].lines))]_vars

(***************************************************************************)
(* Properties of the shell tool.                                           *)
(***************************************************************************)
\* C16: each bash call of a session starts in the directory in which the
\* previous bash call of that session ended (the project root for its first
\* call), whether that call succeeded or failed, and bash calls of other
\* sessions never change the session's directory.
C16_BashStartsWherePreviousEnded ==
    [][\A s \in ToolSessions :
          /\ (bashRuns[s].pc = "idle" /\ bashRuns'[s].pc = "running")
                => bashRuns'[s].startCwd =
                      IF bashRuns[s].endedIn = "none" THEN projectRoot
                      ELSE bashRuns[s].endedIn
          /\ sessionWorkingDirs'[s] # sessionWorkingDirs[s]
                => (bashRuns[s].pc = "running" /\ bashRuns'[s].pc = "idle")]_vars

(***************************************************************************)
(* Properties of tool execution.                                           *)
(***************************************************************************)
\* Run r is suspended in executeToolCalls, on the handler of its next call.
HandlerInProgress(r) == runs[r].pc = "tools"

\* C13: whatever the interleaving of prompts and interrupts, at most one tool
\* handler execution is in progress for a session at a time.
C13_OneHandlerPerSession ==
    \A r1, r2 \in RunIds :
        (HandlerInProgress(r1) /\ HandlerInProgress(r2)
            /\ runs[r1].session = runs[r2].session) => r1 = r2

\* The keys of a payload come in the order ok, name, output, error, metadata.
KeyRank(key) ==
    CASE key = "ok" -> 1 [] key = "name" -> 2 [] key = "output" -> 3
      [] key = "error" -> 4 [] key = "metadata" -> 5 [] OTHER -> 6

WellFormedCalls(calls) == SelectSeq(calls, LAMBDA c : c.wellFormed)

\* The call an execution reports on: the i-th member of the array has id i.
CallOfExecution(run, i) == run.calls[run.executions[i].toolCallId]

\* The absolute path a read of `path` resolves to under the project root /w.
AbsoluteOf(path) == IF path = "f" THEN "/w/f" ELSE path

\* C12: executeToolCalls runs the well-formed calls of a batch one after
\* another in request order: a step finishes at most one handler, the i-th
\* execution carries the id of the i-th well-formed call, a returned batch has
\* exactly one execution per well-formed call, and a handler observes the
\* effects of the calls before it (a write after a successful read of the
\* path is not refused for want of the read; a shell starts where the shell
\* before it changed to).
C12_SequentialInRequestOrder ==
    [][LET run == batchRun'
           wanted == WellFormedCalls(run.calls)
       IN  /\ batchRun.pc = "running"
                 => Len(run.executions) <= Len(batchRun.executions) + 1
           /\ Len(run.executions) <= Len(wanted)
           /\ \A i \in 1 .. Len(run.executions) :
                 run.executions[i].toolCallId = wanted[i].id
           /\ run.pc = "returned" => Len(run.executions) = Len(wanted)
           /\ \A i, j \in 1 .. Len(run.executions) :
                 (/\ i < j
                  /\ CallOfExecution(run, i).name = "read"
                  /\ run.executions[i].result.ok
                  /\ CallOfExecution(run, j).name = "write"
                  /\ CallOfExecution(run, j).file_path
                        = AbsoluteOf(CallOfExecution(run, i).file_path))
                 => run.executions[j].result.error
                        # "Must read existing file before writing."
           /\ \A i \in 1 .. Len(run.executions) - 1 :
                 (/\ CallOfExecution(run, i).name = "bash"
                  /\ CallOfExecution(run, i).command.cd # "none"
                  /\ ~CallOfExecution(run, i).command.early
                  /\ run.executions[i].result.error # "thrown")
                 => run.executions[i + 1].startCwd = CallOfExecution(run, i).command.cd]_vars

\* A returned batch of a malformed call, a read and a write of the file read:
\* two executions, with the ids 2 and 3, both successful.
C12_Witness ==
    /\ batchRun.pc = "returned"
    /\ Len(batchRun.calls) = 3
    /\ ~batchRun.calls[1].wellFormed
    /\ Len(batchRun.executions) = 2
    /\ batchRun.executions[1].toolCallId = 2
    /\ batchRun.executions[1].result.name = "read" /\ batchRun.executions[1].result.ok
    /\ batchRun.executions[2].toolCallId = 3
    /\ batchRun.executions[2].result.name = "write" /\ batchRun.executions[2].result.ok

\* C14: executeToolCalls never throws: an unknown tool name, an argument
\* string that is invalid JSON or not a JSON object, and a handler that throws
\* each yield an ok=false result for that call only, which changes nothing,
\* and every step of a running batch executes and reports its next
\* well-formed call.
C14_BadCallsBecomeResults ==
    /\ [](batchRun.pc # "rejected")
    /\ [][batchRun.pc = "running" =>
             LET call == WellFormedCalls(batchRun.calls)[Len(batchRun.executions) + 1]
                 last == batchRun'.executions[Len(batchRun'.executions)]
                 bad == \/ call.name \notin {"bash", "read", "write", "edit"}
                        \/ call.json \in {"invalid", "notObject"}
                        \/ last.result.error = "thrown"
             IN  /\ Len(batchRun'.executions) = Len(batchRun.executions) + 1
                 /\ last.toolCallId = call.id
                 /\ bad => /\ ~last.result.ok
                           /\ last.result.name = call.name
                           /\ files' = files
                           /\ readFilesBySession' = readFilesBySession
                           /\ sessionWorkingDirs' = sessionWorkingDirs
                 /\ call.name \notin {"bash", "read", "write", "edit"}
                       => last.result.error = "Unknown tool"
                 /\ (call.name \in {"bash", "read", "write", "edit"} /\ call.json = "invalid")
                       => last.result.error = "Failed to parse tool arguments"
                 /\ (call.name \in {"bash", "read", "write", "edit"} /\ call.json = "notObject")
                       => last.result.error = "Tool arguments must be a JSON object."]_vars

\* A returned batch whose first call names an unknown tool, whose second
\* call's handler threw, and whose third call was still executed, with success.
C14_Witness ==
    /\ batchRun.pc = "returned"
    /\ Len(batchRun.executions) = 3
    /\ batchRun.executions[1].result.error = "Unknown tool"
    /\ batchRun.executions[2].result.error = "thrown"
    /\ batchRun.executions[3].result.ok

\* C20: the read-tracking table is changed only by a successful read, which
\* adds exactly the pair of the calling session and the resolved absolute
\* path: a failed read and any write, edit or bash call leave it unchanged,
\* and no step removes an entry.
C20_TrackingChangedOnlyByRead ==
    [][LET n == Len(batchRun'.executions)
           executed == batchRun.pc = "running" /\ n = Len(batchRun.executions) + 1
       IN  IF executed /\ CallOfExecution(batchRun', n).name = "read"
                       /\ batchRun'.executions[n].result.ok
           THEN readFilesBySession' =
                   readFilesBySession
                      \cup {<<batchRun.session, AbsoluteOf(CallOfExecution(batchRun', n).file_path)>>}
           ELSE readFilesBySession' = readFilesBySession]_vars

\* Session 1 read the file through a relative path while session 2's mark was
\* in the table, and then wrote the file: both marks are there.
C20_Witness ==
    /\ batchRun.session = 1
    /\ Len(batchRun.executions) = 2
    /\ CallOfExecution(batchRun, 1).name = "read"
    /\ CallOfExecution(batchRun, 1).file_path = "f"
    /\ batchRun.executions[1].result.ok
    /\ batchRun.executions[2].result.name = "write" /\ batchRun.executions[2].result.ok
    /\ readFilesBySession = {<<1, "/w/f">>, <<2, "/w/f">>}

(***************************************************************************)
(* Properties of the loop.                                                 *)
(***************************************************************************)
\* C17: every activateSession invocation terminates, and calls the model
\* capability at most maxIterations times, provided each model call and each
\* tool execution returns: a run waiting on its k-th model call has k at most
\* maxIterations, and a run in progress is eventually over.
C17_LoopTerminates ==
    /\ [](\A r \in RunIds : runs[r].pc = "model" => runs[r].iteration + 1 <= maxIterations)
    /\ \A r \in LoopRunIds : InProgress(r) ~> ~InProgress(r)

\* A run waits on its last permitted model call.
C17_Witness ==
    \E r \in RunIds : runs[r].pc = "model" /\ runs[r].iteration + 1 = maxIterations

\* C18: handleUserPrompt creates a new session, which becomes the active one,
\* when no session is active or the active one is not in the index; otherwise
\* it creates none, appends the user's message to the active session's log
\* and runs its loop from status pending (which the loop turns into
\* processing, or into failed without a model capability, before the call
\* first suspends).
C18_PromptCreatesOrReplies ==
    [][nextRun' = nextRun + 1 =>
          IF activeSessionId = Null \/ activeSessionId \notin IndexIds(index)
          THEN /\ nextSession' = nextSession + 1
               /\ activeSessionId' = nextSession
               /\ logs'[nextSession].exists
               /\ logs'[nextSession].lines[Len(logs'[nextSession].lines)]
                     = buildUserMessage("prompt")
               /\ runs'[nextRun].session = nextSession
          ELSE /\ nextSession' = nextSession
               /\ IndexIds(index') = IndexIds(index)
               /\ activeSessionId' = activeSessionId
               /\ Len(logs'[activeSessionId].lines) = Len(logs[activeSessionId].lines) + 1
               /\ IsPrefix(logs[activeSessionId].lines, logs'[activeSessionId].lines)
               /\ logs'[activeSessionId].lines[Len(logs'[activeSessionId].lines)]
                     = buildUserMessage("prompt")
               /\ runs'[nextRun].session = activeSessionId
               /\ StatusOf(index', activeSessionId) \in {"processing", "failed"}]_vars

\* One session was created and then took a second prompt: its log holds two
\* user messages and no second session exists.
C18_Witness ==
    /\ nextSession = 2
    /\ activeSessionId = 1
    /\ Cardinality({i \in 1 .. Len(logs[1].lines) : logs[1].lines[i].role = "user"}) = 2

\* C19: a read by a relative path that is not a parent traversal, with
\* acceptable offset, limit and pages: when no non-ignored file of the project
\* tree ends with the path the result is the not-found error; when more than
\* one does it is the ambiguity error, which lists at most 3 candidates, all
\* of them matches; when exactly one does the read succeeds and marks that
\* file as read by the session.
C19_RelativeReadBySuffixMatches ==
    [][(/\ toolCalls' = toolCalls + 1
        /\ lastCall'.tool = "read"
        /\ lastCall'.file_path \in RelativePaths
        /\ ~IsParentTraversal(lastCall'.file_path)
        /\ lastCall'.replace_all)
       => LET path == lastCall'.file_path
              result == lastCall'.result
              matches == findSuffixMatches(files, normalizeRelativeSuffix(path))
              listed == ReadTarget([file_path |-> path], files).listed
          IN  /\ Len(matches) = 0 => ~result.ok /\ result.error = "File not found"
              /\ Len(matches) > 1 =>
                    /\ ~result.ok
                    /\ result.error = "file_path is ambiguous"
                    /\ Len(listed) <= 3
                    /\ \A i \in 1 .. Len(listed) : \E j \in 1 .. Len(matches) : listed[i] = matches[j]
              /\ Len(matches) = 1 =>
                    /\ result.ok
                    /\ readFilesBySession' = readFilesBySession \cup {<<lastCall'.session, matches[1]>>}]_vars

(***************************************************************************)
(* Properties of the project code.                                         *)
(***************************************************************************)
\* C21: the project storage identity is injective: two distinct absolute
\* workspace paths never get the same project code.
C21_ProjectCodeInjective ==
    (codeRun.pc = "done" /\ codeRun.a # codeRun.b) => codeRun.codeA # codeRun.codeB

(***************************************************************************)
(* Properties of interrupts and of the ways a run ends.                    *)
(***************************************************************************)
\* The step is an interruptSession call (it hands one more "Interrupted."
\* notice to the callback).
InterruptStep == InterruptCount' = InterruptCount + 1

\* The index entries of the sessions other than s.
EntriesOfOthers(idx, s) == SelectSeq(idx, LAMBDA e : e.id # s)

\* C22: interruptSession(A) leaves every other session B unchanged: B's
\* index entry (its status), its log, its cancellation handle and what was
\* emitted for it are untouched, and the runs of B stay where they are with
\* their signal not aborted.
C22_InterruptLeavesOthersAlone ==
    [][InterruptStep =>
          LET a == activeSessionId IN
          /\ EntriesOfOthers(index', a) = EntriesOfOthers(index, a)
          /\ \A b \in SessionIds \ {a} :
                /\ logs'[b] = logs[b]
                /\ sessionControllers'[b] = sessionControllers[b]
                /\ emitted'[b] = emitted[b]
          /\ \A r \in RunIds :
                runs[r].session # a =>
                    /\ runs'[r] = runs[r]
                    /\ (r \in abortedControllers') = (r \in abortedControllers)]_vars

\* Session A was interrupted while a run of another session was in progress.
C22_Witness ==
    \E a \in SessionIds, r \in RunIds :
        /\ \E i \in 1 .. Len(emitted[a]) : emitted[a][i].kind = "Interrupted."
        /\ InProgress(r)
        /\ runs[r].session # a
        /\ HasSession(index, runs[r].session)
        /\ r \notin abortedControllers

(***************************************************************************)
(* Properties of plain-text reads.                                         *)
(***************************************************************************)
\* The lines of a text: what stands before each line terminator (LF or CR
\* LF), and what stands behind the last one when that is not empty.
LinesOfFile(raw) ==
    LET parts == SplitLines(raw) IN
    IF parts[Len(parts)] = <<>> THEN SubSeq(parts, 1, Len(parts) - 1) ELSE parts

\* A line as the read shows it: cut at MAX_LINE_LENGTH characters.
Shown(line) == IF Len(line) > MAX_LINE_LENGTH THEN SubSeq(line, 1, MAX_LINE_LENGTH) ELSE line

\* C23: a plain-text read with offset o and limit l (absent: 1 and
\* DEFAULT_LINE_LIMIT) on a file of n lines succeeds and returns exactly the
\* lines o .. min(o + l - 1, n), in order, each with its own 1-based number.
C23_ReadReturnsTheRange ==
    (/\ pageRun.pc = "done"
     /\ pageRun.offset.given => pageRun.offset.value >= 1
     /\ pageRun.limit.given => pageRun.limit.value >= 1)
    => LET lines == LinesOfFile(pageRun.raw)
           n == Len(lines)
           o == IF pageRun.offset.given THEN pageRun.offset.value ELSE 1
           l == IF pageRun.limit.given THEN pageRun.limit.value ELSE DEFAULT_LINE_LIMIT
           last == IF o + l - 1 < n THEN o + l - 1 ELSE n
           count == IF last >= o THEN last - o + 1 ELSE 0
       IN  /\ pageRun.ok
           /\ pageRun.output.lines =
                 [i \in 1 .. count |-> [number |-> o + i - 1, text |-> Shown(lines[o + i - 1])]]

\* The positions of the "Interrupted." notice in what was emitted for s.
InterruptNotices(em, s) == {i \in 1 .. Len(em[s]) : em[s][i].kind = "Interrupted."}

\* C24: when a run whose model call was in flight at interruptSession(S)
\* exits, S's status is interrupted with reason "interrupted", the
\* "Interrupted." notice has been emitted once, as a user-role message, and
\* S's log holds no such message.
C24_InterruptedRunLeavesInterrupted ==
    [][\A r \in RunIds :
          (/\ runs[r].pc = "model"
           /\ r \in abortedControllers
           /\ runs'[r].pc = "done"
           /\ HasSession(index', runs[r].session))
          => LET s == runs[r].session
                 entry == getSession(index', s)
             IN  /\ entry.status = "interrupted"
                 /\ entry.failReason = "interrupted"
                 /\ Cardinality(InterruptNotices(emitted', s)) = 1
                 /\ \A i \in InterruptNotices(emitted', s) : emitted'[s][i].role = "user"
                 /\ \A i \in 1 .. Len(logs'[s].lines) : logs'[s].lines[i].kind # "Interrupted."]_vars

\* C25: when the model call of a run fails, the run makes no further model
\* call (it exits, and an exited run stays so) and appends nothing to the
\* log; after an abort error the status is interrupted and nothing is
\* emitted; after any other error the status is failed with the error's
\* message as reason and exactly one failure notice is emitted.
C25_ModelFailureEndsTheRun ==
    [][\A r \in RunIds :
          /\ runs[r].pc = "done" => runs'[r].pc = "done"
          /\ ModelFails(r) =>
                LET s == runs[r].session
                    known == HasSession(index', s)
                IN  /\ runs'[r].pc = "done"
                    /\ logs' = logs
                    /\ IF r \in abortedControllers
                       THEN /\ emitted' = emitted
                            /\ known => getSession(index', s).status = "interrupted"
                       ELSE /\ emitted' =
                                 [emitted EXCEPT ![s] =
                                     Append(@, [role |-> "assistant", kind |-> "failed",
                                                persisted |-> FALSE])]
                            /\ known => /\ getSession(index', s).status = "failed"
                                         /\ getSession(index', s).failReason = "error"]_vars

\* A model call failed with an error that is no abort: the run has exited,
\* the session is failed with the error as reason, and the notice is out.
C25_Witness ==
    \E r \in RunIds :
        /\ runs[r].pc = "done"
        /\ HasSession(index, runs[r].session)
        /\ getSession(index, runs[r].session).failReason = "error"
        /\ \E i \in 1 .. Len(emitted[runs[r].session]) :
              emitted[runs[r].session][i].kind = "failed"

(***************************************************************************)
(* Properties of the turns of the loop.                                    *)
(***************************************************************************)
\* What the end of a turn of run r, with this refusal and this tool_calls
\* array, leaves: the status of the session (when the index knows it), and
\* whether the run goes on to its next model call.
TurnOutcome(r, refusal, calls) ==
    LET s == runs[r].session
        known == HasSession(index', s)
        entry == getSession(index', s)
    IN  IF refusal
        THEN /\ runs'[r].pc = "done"
             /\ known => entry.status = "failed" /\ entry.failReason = "refusal"
        ELSE IF calls # <<>>
        THEN runs[r].iteration + 1 < maxIterations
                => /\ runs'[r].pc = "model"
                   /\ runs'[r].iteration = runs[r].iteration + 1
                   /\ known => entry.status = "processing"
        ELSE /\ runs'[r].pc = "done"
             /\ known => entry.status = "completed"

\* C26: at the end of each model turn that is not interrupted (the response
\* came with no call to execute, or the last handler of its batch returned,
\* and the handle is still registered) the status is failed with the refusal
\* as reason if the response carries a refusal, and the run stops; otherwise,
\* with a non-empty tool_calls array, it is processing and the run goes on to
\* the next model call (while the bound allows one); otherwise it is
\* completed and the run stops.
C26_StatusAfterEachTurn ==
    [][\A r \in RunIds :
          /\ \A resp \in TurnResponses :
                (/\ ModelReturns(r, resp)
                 /\ ParsedCalls(resp.calls) = <<>>
                 /\ sessionControllers[runs[r].session] # Null)
                => TurnOutcome(r, resp.refusal, resp.calls)
          /\ \A ok \in BOOLEAN :
                (/\ ToolReturns(r, ok)
                 /\ Len(runs[r].executions) + 1 = Len(runs[r].parsed)
                 /\ sessionControllers[runs[r].session] # Null)
                => TurnOutcome(r, runs[r].refusal, runs[r].calls)]_vars

\* A turn with a batch ended and the run is at its second model call, the
\* session processing; and a refusal that carried a batch ended a run.
C26_Witness ==
    /\ \E r \in RunIds :
          /\ runs[r].pc = "model"
          /\ runs[r].iteration = 1
          /\ HasSession(index, runs[r].session)
          /\ getSession(index, runs[r].session).status = "processing"
    /\ \E r \in RunIds :
          /\ runs[r].pc = "done"
          /\ HasSession(index, runs[r].session)
          /\ getSession(index, runs[r].session).failReason = "refusal"

\* The positions of the notice that asks whether to continue.
ContinueNotices(em, s) == {i \in 1 .. Len(em[s]) : em[s][i].kind = "continue?"}

\* What the end of the last turn the bound allows leaves, when that turn
\* carries tool calls and no refusal.
BoundExhausted(r) ==
    LET s == runs[r].session IN
    /\ runs'[r].pc = "done"
    /\ HasSession(index', s) => getSession(index', s).status = "completed"
    /\ Cardinality(ContinueNotices(emitted', s)) = Cardinality(ContinueNotices(emitted, s)) + 1
    /\ emitted'[s][Len(emitted'[s])] =
          [role |-> "assistant", kind |-> "continue?", persisted |-> FALSE]
    /\ \A i \in 1 .. Len(logs'[s].lines) : logs'[s].lines[i].kind # "continue?"

\* C27: when the maxIterations-th model turn of a run ends uninterrupted
\* with tool calls and no refusal (as every earlier turn of the run did), the
\* run exits with status completed and emits exactly one notice asking
\* whether to continue, which is not in the log.
C27_BoundExhaustedAsksToContinue ==
    [][\A r \in RunIds :
          /\ \A resp \in TurnResponses :
                (/\ ModelReturns(r, resp)
                 /\ ParsedCalls(resp.calls) = <<>>
                 /\ sessionControllers[runs[r].session] # Null
                 /\ ~resp.refusal /\ resp.calls # <<>>
                 /\ runs[r].iteration + 1 = maxIterations)
                => BoundExhausted(r)
          /\ \A ok \in BOOLEAN :
                (/\ ToolReturns(r, ok)
                 /\ Len(runs[r].executions) + 1 = Len(runs[r].parsed)
                 /\ sessionControllers[runs[r].session] # Null
                 /\ ~runs[r].refusal /\ runs[r].calls # <<>>
                 /\ runs[r].iteration + 1 = maxIterations)
                => BoundExhausted(r)]_vars

\* A run went through maxIterations turns with tool calls and has exited:
\* its session is completed and the notice is out.
C27_Witness ==
    \E r \in RunIds :
        LET s == runs[r].session IN
        /\ runs[r].pc = "done"
        /\ HasSession(index, s)
        /\ getSession(index, s).status = "completed"
        /\ ContinueNotices(emitted, s) # {}
        /\ Cardinality({i \in 1 .. Len(logs[s].lines) :
                           logs[s].lines[i].role = "assistant" /\ logs[s].lines[i].run = r
                           /\ logs[s].lines[i].calls # <<>>}) = maxIterations

\* C28: a prompt without a model capability: activateSession sets the
\* session to failed with the fixed reason, hands exactly one assistant
\* notice to the callback, makes no model call (the invocation has returned),
\* registers no cancellation handle and appends nothing to the log (the log
\* gains the prompt's messages, none built by the invocation).
C28_NoClientFailsAtOnce ==
    [][\A nSkills \in 0 .. 1 :
          handleUserPrompt(nSkills, FALSE) =>
              LET s == activeSessionId'
                  r == nextRun
              IN  /\ runs'[r].pc = "done"
                  /\ HasSession(index', s)
                        => /\ getSession(index', s).status = "failed"
                           /\ getSession(index', s).failReason = "nokey"
                  /\ emitted' = [emitted EXCEPT ![s] =
                                    Append(@, [role |-> "assistant", kind |-> "nokey",
                                               persisted |-> FALSE])]
                  /\ sessionControllers' = sessionControllers
                  /\ \A i \in 1 .. Len(logs'[s].lines) :
                        /\ logs'[s].lines[i].run # r
                        /\ logs'[s].lines[i].kind # "nokey"]_vars

\* A prompt was taken without a model capability: its invocation has
\* returned, the session is failed for the missing key and the notice is out.
C28_Witness ==
    \E r \in RunIds :
        LET s == runs[r].session IN
        /\ runs[r].pc = "done"
        /\ HasSession(index, s)
        /\ getSession(index, s).status = "failed"
        /\ getSession(index, s).failReason = "nokey"
        /\ emitted[s] # <<>>
        /\ emitted[s][Len(emitted[s])].kind = "nokey"
        /\ sessionControllers[s] = Null

\* C29: whenever an activateSession invocation that registered a
\* cancellation handle returns, by whatever path, no cancellation handle is
\* registered for its session.
C29_HandleReleasedOnExit ==
    [][\A r \in RunIds :
          (InProgress(r) /\ runs'[r].pc = "done")
             => sessionControllers'[runs[r].session] = Null]_vars

\* Runs have exited on a failed model call and at the end of a turn, with
\* no interrupt made, and no handle is left.
C29_Witness ==
    /\ InterruptCount = 0
    /\ \E r1, r2 \in RunIds :
          /\ runs[r1].pc = "done" /\ runs[r2].pc = "done"
          /\ HasSession(index, runs[r1].session)
          /\ getSession(index, runs[r1].session).failReason = "error"
          /\ HasSession(index, runs[r2].session)
          /\ getSession(index, runs[r2].session).status = "completed"
    /\ \A s \in SessionIds : sessionControllers[s] = Null

(***************************************************************************)
(* Properties of the tool messages.                                        *)
(***************************************************************************)
\* The executions of run r's batch once its last handler has returned `ok`.
ExecutionsWith(r, ok) ==
    LET call == runs[r].parsed[Len(runs[r].executions) + 1] IN
    Append(runs[r].executions, [toolCallId |-> call.id, name |-> call.name, ok |-> ok])

\* C31: a persisted tool message is non-visible exactly when its result has
\* name "bash" and ok is not true: the tool messages a batch appends are one
\* per execution, in order, each visible unless it is a failed bash result.
C31_ToolMessageVisibility ==
    [][\A r \in RunIds, ok \in BOOLEAN :
          (/\ ToolReturns(r, ok)
           /\ Len(runs[r].executions) + 1 = Len(runs[r].parsed)
           /\ sessionControllers[runs[r].session] # Null)
          => LET s == runs[r].session
                 executions == ExecutionsWith(r, ok)
                 new == Behind(logs[s].lines, logs'[s].lines)
             IN  /\ IsPrefix(logs[s].lines, logs'[s].lines)
                 /\ Len(new) = Len(executions)
                 /\ \A i \in 1 .. Len(new) :
                       /\ new[i].role = "tool"
                       /\ new[i].tcid = executions[i].toolCallId
                       /\ new[i].visible =
                             ~(executions[i].name = "bash" /\ ~executions[i].ok)]_vars

\* A log holds a hidden tool message and a visible tool message of the same
\* batch: a failed shell command next to a failed read, write or edit.
C31_Witness ==
    \E s \in SessionIds : \E i, j \in 1 .. Len(logs[s].lines) :
        /\ logs[s].lines[i].role = "tool" /\ ~logs[s].lines[i].visible
        /\ logs[s].lines[j].role = "tool" /\ logs[s].lines[j].visible
        /\ j = i + 1

(***************************************************************************)
(* Properties of failed and repeated writes and edits.                     *)
(***************************************************************************)
\* C32: a write or edit call that returns ok = false leaves the files and
\* the read-tracking table as they were.
C32_FailedCallChangesNothing ==
    [][(/\ toolCalls' = toolCalls + 1
        /\ lastCall'.tool \in {"write", "edit"}
        /\ ~lastCall'.result.ok)
       => /\ files' = files
          /\ readFilesBySession' = readFilesBySession]_vars

\* An edit was refused because old_string is not unique in a file that the
\* session had read, and a write because the file had not been read.
C32_Witness ==
    /\ lastCall.tool = "edit"
    /\ ~lastCall.result.ok
    /\ lastCall.result.error = "old_string is not unique; use replace_all or provide more context."
    /\ files["/w/f"] = FileWith(<<"a", "a">>)
    /\ <<lastCall.session, "/w/f">> \in readFilesBySession

(***************************************************************************)
(* Properties of the shell tool's output.                                  *)
(***************************************************************************)
\* The lines of a text without those that hold the marker.
LinesWithoutMarker(text) ==
    JoinLines(SelectSeq(SplitLines(text), LAMBDA line : \A i \in 1 .. Len(line) : line[i] # "M"))

\* stdout followed by stderr, with or without a line feed between the two.
Followed(stdout, stderr) ==
    {stdout \o stderr}
    \cup (IF stdout # <<>> /\ stderr # <<>> THEN {stdout \o <<"LF">> \o stderr} ELSE {})

\* C33: the output of a bash result is stdout without the marker line (what
\* the command itself wrote, or the lines of stdout that hold no marker),
\* followed by stderr and cut to MAX_OUTPUT_CHARS characters, and truncated
\* is true exactly when the combined text is longer than that.
C33_OutputIsStdoutThenStderrCut ==
    outputRun.pc = "done" =>
        \E cleaned \in {outputRun.own,
                         LinesWithoutMarker(ShellStdout(outputRun.own, outputRun.reached))} :
            \E combined \in Followed(cleaned, outputRun.stderr) :
                /\ Len(outputRun.result.output) <= MAX_OUTPUT_CHARS
                /\ outputRun.result.output =
                      SubSeq(combined, 1, IF Len(combined) < MAX_OUTPUT_CHARS THEN Len(combined)
                                          ELSE MAX_OUTPUT_CHARS)
                /\ outputRun.result.truncated <=> Len(combined) > MAX_OUTPUT_CHARS

(***************************************************************************)
(* Properties of the status of a session whose runs have stopped.          *)
(***************************************************************************)
\* An invocation of activateSession for session s is suspended on the model
\* call or on a tool handler.
RunInProgress(s) == \E r \in RunIds : runs[r].session = s /\ runs[r].pc \in {"model", "tools"}

\* The invocations of activateSession for session s that have returned.
RunsStopped(s) == {r \in RunIds : runs[r].session = s /\ runs[r].pc = "done"}

\* C34: a session of the index for which no run is in progress is neither
\* pending nor processing.
C34_StoppedSessionIsSettled ==
    \A s \in SessionIds :
        (HasSession(index, s) /\ ~RunInProgress(s))
            => getSession(index, s).status \notin {"pending", "processing"}

\* Two runs of one session have stopped after the session was interrupted,
\* and the session is completed.
C34_Witness ==
    \E s \in SessionIds :
        /\ HasSession(index, s)
        /\ ~RunInProgress(s)
        /\ Cardinality(RunsStopped(s)) >= 2
        /\ \E i \in 1 .. Len(emitted[s]) : emitted[s][i].kind = "Interrupted."
        /\ getSession(index, s).status = "completed"

(***************************************************************************)
(* Properties of the tool messages of a batch.                             *)
(***************************************************************************)
\* The position of the first user or assistant message behind position i,
\* or one past the end of the log.
NextTurnAfter(lines, i) ==
    LET later == {j \in i + 1 .. Len(lines) : lines[j].role \in {"user", "assistant"}}
    IN  IF later = {} THEN Len(lines) + 1
        ELSE CHOOSE j \in later : \A k \in later : j <= k

\* The tool_call_id of the tool messages between position i and the next
\* user or assistant message, in the order of the log.
ToolIdsAfter(lines, i) ==
    LET between == SelectSeq(SubSeq(lines, i + 1, NextTurnAfter(lines, i) - 1),
                             LAMBDA m : m.role = "tool")
    IN  [k \in 1 .. Len(between) |-> between[k].tcid]

\* The ids of the tool calls an assistant message carries, in request order.
RequestedIds(m) == [k \in 1 .. Len(m.calls) |-> m.calls[k].id]

\* C35: in every log, an assistant message with tool calls is followed,
\* before any later user or assistant message, by one tool message per call
\* of the batch, with the call's id and in request order (once a later user
\* or assistant message is there, or no run of the session is in progress).
C35_EveryCallGetsItsToolMessage ==
    \A s \in SessionIds :
        LET lines == logs[s].lines IN
        \A i \in 1 .. Len(lines) :
            (/\ lines[i].role = "assistant"
             /\ lines[i].calls # <<>>
             /\ NextTurnAfter(lines, i) <= Len(lines) \/ ~RunInProgress(s))
            => ToolIdsAfter(lines, i) = RequestedIds(lines[i])

(***************************************************************************)
(* Properties of tool execution after an interrupt.                        *)
(***************************************************************************)
\* In this step a handler starts for run r: the first of a batch when the
\* model call returns, the next one when a handler returns.
HandlerStarts(r) ==
    /\ runs'[r].pc = "tools"
    /\ \/ runs[r].pc = "model"
       \/ Len(runs'[r].executions) > Len(runs[r].executions)

\* interruptSession was called for s and no prompt for s has come since:
\* the entry is interrupted (a prompt makes it pending).
InterruptedSincePrompt(s) ==
    HasSession(index, s) /\ getSession(index, s).status = "interrupted"

\* C36: once interruptSession(S) was called, no tool handler starts for S
\* until the next prompt for S.
C36_NoHandlerStartsAfterInterrupt ==
    [][\A r \in RunIds :
          (runs[r].session # Null /\ InterruptedSincePrompt(runs[r].session))
              => ~HandlerStarts(r)]_vars

(***************************************************************************)
(* Properties of the new entry under retention.                            *)
(***************************************************************************)
\* C37: createSession leaves the session it creates in the index, whatever
\* the update times of the entries that were there.
C37_NewSessionStaysInIndex ==
    [][nextSession' = nextSession + 1 => HasSession(index', nextSession)]_vars

(***************************************************************************)
(* Properties of an edit whose old_string occurs once.                     *)
(***************************************************************************)
\* The edit just made, with replace_all the other way round, on the files
\* as they were before it.
SameEditOtherMode ==
    handleEditTool([file_path |-> lastCall'.file_path,
                    hasOld |-> TRUE, old_string |-> lastCall'.old_string,
                    hasNew |-> TRUE, new_string |-> lastCall'.new_string,
                    replace_all |-> ~lastCall'.replace_all],
                   lastCall'.session, files, readFilesBySession)

\* C38: when old_string occurs exactly once in the file, the edit leaves the
\* same content with replace_all false and true: the text with that
\* occurrence replaced by new_string taken literally.
C38_ReplaceAllMakesNoDifferenceOnOne ==
    [][(/\ Called("edit")
        /\ EditArgumentsValid(lastCall')
        /\ <<lastCall'.session, lastCall'.file_path>> \in successfulReads
        /\ files[FileAt(lastCall'.file_path)].kind = "file"
        /\ Occurrences(files[FileAt(lastCall'.file_path)].content, lastCall'.old_string) = 1)
       => /\ lastCall'.result.ok
          /\ files' = SameEditOtherMode.files
          /\ files'[FileAt(lastCall'.file_path)] =
                FileWith(ReplacedLiterally(files[FileAt(lastCall'.file_path)].content,
                                           lastCall'.old_string, lastCall'.new_string, 1))]_vars

(***************************************************************************)
(* Properties of a file created by a write.                                *)
(***************************************************************************)
\* This step is a write with a content, or an edit with valid arguments, by
\* the session and to the path of a file that a write of the session created
\* and that the session has not read with success since; the file is there.
SecondCallOnCreated ==
    /\ toolCalls' = toolCalls + 1
    /\ \/ lastCall'.tool = "write" /\ lastCall'.hasNew
       \/ lastCall'.tool = "edit" /\ EditArgumentsValid(lastCall')
    /\ <<lastCall'.session, lastCall'.file_path>> \in createdFiles
    /\ files[FileAt(lastCall'.file_path)].kind = "file"

\* The call was rejected with the read-precondition error of its tool.
ReadPreconditionError(call) ==
    /\ ~call.result.ok
    /\ call.result.error = IF call.tool = "write" THEN "Must read existing file before writing."
                           ELSE "Must read file before editing."

\* C39 as stated: after a write of session S created the file at P, a second
\* write or an edit to P by S, with no successful read of P by S in between,
\* is rejected with the read-precondition error.
C39_CreatedFileIsNotRead ==
    [][SecondCallOnCreated => (ReadPreconditionError(lastCall') /\ files' = files)]_vars

\* C39, amended: the same, for a session that has never read P with success
\* (a read mark made before the file was removed outlives the removal).
C39_CreatedFileIsNotReadUnlessReadBefore ==
    [][(/\ SecondCallOnCreated
        /\ <<lastCall'.session, lastCall'.file_path>> \notin successfulReads)
       => (ReadPreconditionError(lastCall') /\ files' = files)]_vars

\* A session created the file by a write, never read it, and its edit of the
\* file was rejected with the must-read error.
C39_Witness ==
    /\ lastCall.tool = "edit"
    /\ EditArgumentsValid(lastCall)
    /\ ReadPreconditionError(lastCall)
    /\ <<lastCall.session, lastCall.file_path>> \in createdFiles
    /\ <<lastCall.session, lastCall.file_path>> \notin successfulReads
    /\ files[FileAt(lastCall.file_path)].kind = "file"

====
